---- MODULE Spec2Model ----
(***************************************************************************)
(* The conversation pipeline of the documentation agent: the LangGraph     *)
(* workflow built by AgentGraph._build_graph, its eight nodes              *)
(* (GraphNodes), the entry point AgentGraph.process_message and the vector *)
(* store query they consume; and the service around it: the HTTP handlers, *)
(* ChatService, DocumentProcessor and VectorStore over the session,        *)
(* message and chunk tables and the index, one step per commit or index    *)
(* call.  Database commits are taken to succeed, but for the commit of the *)
(* chunk rows, which may raise; rows of one chat come back in the order    *)
(* they were inserted.                                                     *)
(*                                                                         *)
(* Text is a sequence of characters (one-character strings); a piece of    *)
(* text whose characters are never inspected (a fixed message, an error    *)
(* description) is a single element holding the whole piece.  A backtick   *)
(* is written BT.  A Python dict is a function from its keys to its        *)
(* values, so a missing key is a key outside the DOMAIN.                   *)
(***************************************************************************)
EXTENDS Integers, Sequences, FiniteSets, TLC

\* ------------------------------------------------------------------ bounds

\* Largest number of chunks in the scope's index partition.
MaxIndex == 6
\* Largest number of prior messages handed to process_message.
MaxHistory == 6
\* Largest partition in the runs checked for termination.
MaxLiveIndex == 2
\* Cap on the number of node executions recorded for one run.
MaxStages == 8

\* ------------------------------------------------------- program constants

RagTopK == 5
CodeTopK == 10
IntentContext == 3
RagContext == 5

\* --------------------------------------------------------------------- text

BT == "<backtick>"
NL == "\n"

LowerLetters ==
    <<"a","c","d","e","f","g","i","l","n","o","p","q","r","s","t","u","w","x","y">>
UpperLetters ==
    <<"A","C","D","E","F","G","I","L","N","O","P","Q","R","S","T","U","W","X","Y">>

LetterIndex(tbl, c) == CHOOSE i \in 1..Len(tbl) : tbl[i] = c

\* str.upper() and str.lower(), one character.
UpperChar(c) ==
    IF \E i \in 1..Len(LowerLetters) : LowerLetters[i] = c
    THEN UpperLetters[LetterIndex(LowerLetters, c)] ELSE c
LowerChar(c) ==
    IF \E i \in 1..Len(UpperLetters) : UpperLetters[i] = c
    THEN LowerLetters[LetterIndex(UpperLetters, c)] ELSE c

Upper(s) == [i \in 1..Len(s) |-> UpperChar(s[i])]
Lower(s) == [i \in 1..Len(s) |-> LowerChar(s[i])]

IsSpace(c) == c \in {" ", NL, "\t"}

RECURSIVE LStrip(_)
LStrip(s) == IF Len(s) > 0 /\ IsSpace(s[1]) THEN LStrip(Tail(s)) ELSE s
RECURSIVE RStrip(_)
RStrip(s) ==
    IF Len(s) > 0 /\ IsSpace(s[Len(s)]) THEN RStrip(SubSeq(s, 1, Len(s) - 1)) ELSE s
\* str.strip()
Strip(s) == RStrip(LStrip(s))

\* The Python string spelled by a sequence of characters.
RECURSIVE Join(_)
Join(s) == IF Len(s) = 0 THEN "" ELSE Head(s) \o Join(Tail(s))

\* sub in s
Contains(s, sub) ==
    \E i \in 1..(Len(s) - Len(sub) + 1) : SubSeq(s, i, i + Len(sub) - 1) = sub

\* The regular expression class \w, over the characters the model uses.
IsWord(c) ==
    \/ \E i \in 1..Len(LowerLetters) : LowerLetters[i] = c
    \/ \E i \in 1..Len(UpperLetters) : UpperLetters[i] = c
    \/ c = "_"

Fence == <<BT, BT, BT>>

\* ------------------------------------------------------------------- dicts

EmptyDict == <<>>
Get(d, k, default) == IF k \in DOMAIN d THEN d[k] ELSE default
\* {**d, **upd}
Merge(d, upd) ==
    [k \in (DOMAIN d) \cup (DOMAIN upd) |-> IF k \in DOMAIN upd THEN upd[k] ELSE d[k]]

Min(a, b) == IF a < b THEN a ELSE b

\* ------------------------------------------------------ the scope's index

UrlA == "https://docs.example/a"
UrlB == "https://docs.example/b"

\* A section chunk of plain prose.
ProseChunk ==
    [content |-> <<"d","o","c","s">>,
     metadata |-> [url |-> UrlA, chunk_type |-> "section"]]
\* A section chunk whose prose mentions "code", stored without a URL.
MentionChunk ==
    [content |-> <<"t","o"," ","C","O","D","E">>,
     metadata |-> [url |-> "", chunk_type |-> "section"]]
\* A code chunk as the chunker writes it: a header and the fenced code.
CodeChunk ==
    [content |-> <<"C","o","d","e",":",NL>> \o Fence \o <<"p","y",NL,"x",NL>> \o Fence,
     metadata |-> [url |-> UrlB, chunk_type |-> "code"]]

ChunkPool == {ProseChunk, MentionChunk, CodeChunk}

\* The partitions a scope can hold, nearest chunk to the run's query first.
Indexes == UNION {[1..n -> ChunkPool] : n \in 0..MaxIndex}

\* VectorStore.search: the top_k nearest chunks, best match first; every
\* failure of the lookup or of the query is caught and answered by [].
Search(idx, top_k, ok) ==
    IF ~ok THEN <<>>
    ELSE [i \in 1..Min(top_k, Len(idx)) |->
            [content |-> idx[i].content, metadata |-> idx[i].metadata, distance |-> i]]

\* -------------------------------------------------------- generative model

\* The outcome of one llm.ainvoke: the content of the answer, or the
\* description of the exception raised.
LLMError == [ok |-> FALSE, text |-> <<"model unavailable">>]
Answered(text) == [ok |-> TRUE, text |-> text]
NoCall == [ok |-> FALSE, text |-> <<"not called">>]

AnsGeneral == <<"G","E","N","E","R","A","L","_","Q","U","E","S","T","I","O","N">>
AnsCode == <<" ","c","o","d","e","_","q","u","e","s","t","i","o","n",NL>>
AnsFollowUp == <<"F","o","l","l","o","w","_","U","p">>
AnsClarify ==
    <<"C","L","A","R","I","F","I","C","A","T","I","O","N","_","N","E","E","D","E","D",NL>>
AnsOther == <<"C","O","D","E"," ","Q","U","E","S","T","I","O","N">>

\* What the classification call can come back with.
IntentOutcomes ==
    {Answered(a) : a \in {AnsGeneral, AnsCode, AnsFollowUp, AnsClarify, AnsOther}}
        \cup {LLMError}

GenPlain == <<"o","k">>
GenBareFence == <<"r","u","n",NL>> \o Fence \o <<NL,"x",NL>> \o Fence

\* What a generation call can come back with.
GenOutcomes == {Answered(GenPlain), Answered(GenBareFence), LLMError}

\* ----------------------------------------------------------------- history

HistoryText == <<"q1","a1","q2","a2","q3","a3","q4","a4","q5","a5">>

\* n prior messages, alternating user and assistant; kind tells whether the
\* entries are ChatMessage rows (attribute access works) or plain dicts.
HistoryOf(n, kind) ==
    [i \in 1..n |->
        [kind |-> kind,
         role |-> IF i % 2 = 1 THEN "user" ELSE "assistant",
         content |-> <<HistoryText[i]>>]]

\* No history, a history between the two context windows, the longest one.
HistoryLengths == {0, IntentContext + 1, MaxHistory}

Histories ==
    {HistoryOf(n, "ChatMessage") : n \in HistoryLengths} \cup {HistoryOf(1, "dict")}

\* chat_history[-n:]
Recent(h, n) == SubSeq(h, IF Len(h) > n THEN Len(h) - n + 1 ELSE 1, Len(h))

\* msg.role / msg.content on the recent messages raises AttributeError when
\* an entry is not an object with these attributes.
ContextRaises(h, n) ==
    \E i \in 1..Len(Recent(h, n)) : Recent(h, n)[i].kind # "ChatMessage"

AttributeError == <<"'dict' object has no attribute 'role'">>

\* -------------------------------------------------------------- the nodes

ValidIntents == {"GENERAL_QUESTION", "CODE_QUESTION", "FOLLOW_UP", "CLARIFICATION_NEEDED"}

NoInfoMsg ==
    <<"I couldn't find relevant information in the documentation to answer your question. Could you please rephrase or ask about a different topic?">>
ClarifyMsg ==
    <<"I'm not sure I understand your question. Could you please rephrase it or provide more details?">>
NoResponseMsg == <<"No response generated">>

\* GraphNodes.input_node
InputNode(st) ==
    Merge(st, [user_message |-> Get(st, "message", <<>>),
               current_step |-> "input_received"])

\* intent_analysis_node without the validation of the label.
ParseIntentUnvalidated(llm) ==
    IF ~llm.ok THEN "GENERAL_QUESTION" ELSE Join(Upper(Strip(llm.text)))

\* The label intent_analysis_node derives from the outcome of its model call.
ParseIntent(llm) ==
    IF ~llm.ok THEN "GENERAL_QUESTION"
    ELSE LET intent == Join(Upper(Strip(llm.text)))
         IN  IF intent \notin ValidIntents THEN "GENERAL_QUESTION" ELSE intent

\* GraphNodes.intent_analysis_node, once its context is built.
IntentAnalysisNode(st, llm) ==
    Merge(st, [intent |-> ParseIntent(llm), current_step |-> "intent_analyzed"])

\* A routing map whose default is the clarification node.
RoutingMapDefaultClarify(intent) ==
    CASE intent = "GENERAL_QUESTION" -> "rag_node"
      [] intent = "CODE_QUESTION" -> "code_analysis_node"
      [] intent = "FOLLOW_UP" -> "rag_node"
      [] OTHER -> "clarification_node"

\* routing_map.get(intent, "rag_node")
RoutingMap(intent) ==
    CASE intent = "GENERAL_QUESTION" -> "rag_node"
      [] intent = "CODE_QUESTION" -> "code_analysis_node"
      [] intent = "FOLLOW_UP" -> "rag_node"
      [] intent = "CLARIFICATION_NEEDED" -> "clarification_node"
      [] OTHER -> "rag_node"

\* GraphNodes.conditional_router
ConditionalRouter(st) ==
    Merge(st, [next_node |-> RoutingMap(Get(st, "intent", "GENERAL_QUESTION")),
               current_step |-> "routed"])

\* The URLs a generator collects: list(set(...)) over the non-empty url
\* metadata; the order of a Python set is unspecified, so every order.
\* The source extraction without the test that drops a chunk with no URL.
SourceUrlsUnfiltered(chunks) ==
    {chunks[i].metadata.url : i \in 1..Len(chunks)}

SourceUrls(chunks) ==
    {chunks[i].metadata.url : i \in {j \in 1..Len(chunks) : chunks[j].metadata.url # ""}}
SourceLists(chunks) ==
    LET urls == SourceUrls(chunks)
    IN  {f \in [1..Cardinality(urls) -> urls] :
            \A i, j \in 1..Cardinality(urls) : f[i] = f[j] => i = j}

\* rag_node without the early return on an empty query result.
RagAlwaysCallsLLM(chunks) == TRUE

\* rag_node reaches its model call: the query found chunks.
RagCallsLLM(chunks) == chunks # <<>>

\* rag_node with an except branch that answers as if nothing had been found.
RagNodeHidesError(st, chunks, llm, srcs) ==
    IF chunks = <<>> \/ ~llm.ok
    THEN Merge(st, [retrieved_chunks |-> <<>>,
                    current_step |-> "rag_completed",
                    response |-> NoInfoMsg])
    ELSE Merge(st, [retrieved_chunks |-> chunks,
                    response |-> llm.text,
                    sources |-> srcs,
                    current_step |-> "rag_completed"])

\* GraphNodes.rag_node: the state it returns for the chunks its query found,
\* the outcome of its model call (when made) and the order of the sources.
RagNode(st, chunks, llm, srcs) ==
    IF ~RagCallsLLM(chunks)
    THEN Merge(st, [retrieved_chunks |-> <<>>,
                    current_step |-> "rag_completed",
                    response |-> NoInfoMsg])
    ELSE IF ContextRaises(Get(st, "chat_history", <<>>), RagContext)
    THEN Merge(st, [response |-> <<"Error retrieving information: ">> \o AttributeError,
                    sources |-> <<>>,
                    current_step |-> "rag_completed"])
    ELSE IF ~llm.ok
    THEN Merge(st, [response |-> <<"Error retrieving information: ">> \o llm.text,
                    sources |-> <<>>,
                    current_step |-> "rag_completed"])
    ELSE Merge(st, [retrieved_chunks |-> chunks,
                    response |-> llm.text,
                    sources |-> srcs,
                    current_step |-> "rag_completed"])

\* The filter of code_analysis_node.
IsCodeRelevant(chunk) ==
    \/ chunk.metadata.chunk_type = "code"
    \/ Contains(Lower(chunk.content), <<"c","o","d","e">>)
    \/ Contains(chunk.content, Fence)
CodeFilter(chunks) == SelectSeq(chunks, IsCodeRelevant)

\* code_analysis_node without the fallback on an empty filter result.
CodeNeverDelegates(relevant) == FALSE

\* code_analysis_node hands the state to rag_node: nothing passed the filter.
CodeDelegates(relevant) == relevant = <<>>

\* GraphNodes.code_analysis_node, on the path that answers from code chunks.
CodeAnswer(st, relevant, llm, srcs) ==
    Merge(st, [retrieved_chunks |-> relevant,
               response |-> llm.text,
               sources |-> srcs,
               current_step |-> "code_analysis_completed"])

\* clarification_node with an except branch that echoes the error.
ClarificationNodeEchoesError(st, llm) ==
    Merge(st, [response |-> IF llm.ok THEN llm.text
                             ELSE <<"Error retrieving information: ">> \o llm.text,
               sources |-> <<>>,
               current_step |-> "clarification_requested"])

\* GraphNodes.clarification_node
ClarificationNode(st, llm) ==
    Merge(st, [response |-> IF llm.ok THEN llm.text ELSE ClarifyMsg,
               sources |-> <<>>,
               current_step |-> "clarification_requested"])

\* The end of the run of \w characters that starts at position j.
RECURSIVE WordRun(_, _)
WordRun(s, j) == IF j <= Len(s) /\ IsWord(s[j]) THEN WordRun(s, j + 1) ELSE j

TextTag == <<"t","e","x","t">>

\* The substitution writing the tag text on every fence it matches.
RECURSIVE SubFenceRetags(_, _)
SubFenceRetags(s, i) ==
    IF i > Len(s) THEN <<>>
    ELSE IF i + 2 <= Len(s) /\ SubSeq(s, i, i + 2) = Fence
    THEN LET j == WordRun(s, i + 3)
         IN  IF j <= Len(s) /\ s[j] = NL
             THEN Fence \o TextTag \o <<NL>> \o SubFenceRetags(s, j + 1)
             ELSE <<s[i]>> \o SubFenceRetags(s, i + 1)
    ELSE <<s[i]>> \o SubFenceRetags(s, i + 1)

\* The substitution writing the tag text after whatever follows the fence.
RECURSIVE SubFenceAppends(_, _)
SubFenceAppends(s, i) ==
    IF i > Len(s) THEN <<>>
    ELSE IF i + 2 <= Len(s) /\ SubSeq(s, i, i + 2) = Fence
    THEN LET j == WordRun(s, i + 3)
         IN  IF j <= Len(s) /\ s[j] = NL
             THEN Fence \o SubSeq(s, i + 3, j - 1) \o TextTag
                        \o <<NL>> \o SubFenceAppends(s, j + 1)
             ELSE <<s[i]>> \o SubFenceAppends(s, i + 1)
    ELSE <<s[i]>> \o SubFenceAppends(s, i + 1)

\* re.sub(r'```(\w+)?\n', lambda m: f'```{m.group(1) or "text"}\n', s), from
\* position i on: leftmost non-overlapping matches, each replaced.
RECURSIVE SubFence(_, _)
SubFence(s, i) ==
    IF i > Len(s) THEN <<>>
    ELSE IF i + 2 <= Len(s) /\ SubSeq(s, i, i + 2) = Fence
    THEN LET j == WordRun(s, i + 3)
         IN  IF j <= Len(s) /\ s[j] = NL
             THEN Fence \o (IF j = i + 3 THEN TextTag ELSE SubSeq(s, i + 3, j - 1))
                        \o <<NL>> \o SubFence(s, j + 1)
             ELSE <<s[i]>> \o SubFence(s, i + 1)
    ELSE <<s[i]>> \o SubFence(s, i + 1)

FormatResponse(response) ==
    IF Contains(response, Fence) THEN SubFence(response, 1) ELSE response

\* code_formatting_node returning only the keys it writes, without **state.
CodeFormattingNodeDropsState(st) ==
    [response |-> FormatResponse(Get(st, "response", <<>>)),
     current_step |-> "code_formatted"]

\* GraphNodes.code_formatting_node
CodeFormattingNode(st) ==
    Merge(st, [response |-> FormatResponse(Get(st, "response", <<>>)),
               current_step |-> "code_formatted"])

\* GraphNodes.memory_node
MemoryNode(st) ==
    Merge(st, [memory |->
        [last_user_message |-> Get(st, "user_message", <<>>),
         last_assistant_response |-> Get(st, "response", <<>>),
         conversation_length |-> Len(Get(st, "chat_history", <<>>)) + 2,
         current_step |-> "memory_updated"]])

\* -------------------------------------------------------------- the graph

Nodes ==
    {"input_node", "intent_analysis_node", "conditional_router", "rag_node",
     "code_analysis_node", "clarification_node", "code_formatting_node", "memory_node"}
Generators == {"rag_node", "code_analysis_node", "clarification_node"}

\* AgentGraph._route_based_on_intent
RouteBasedOnIntent(st) == Get(st, "next_node", "rag_node")

\* A workflow whose generators are wired straight to the memory node.
EdgeSkipsFormatting(node, st) ==
    CASE node = "input_node" -> "intent_analysis_node"
      [] node = "intent_analysis_node" -> "conditional_router"
      [] node = "conditional_router" -> RouteBasedOnIntent(st)
      [] node \in Generators -> "memory_node"
      [] node = "code_formatting_node" -> "memory_node"
      [] node = "memory_node" -> "END"

\* A workflow whose memory node is wired back to the router.
EdgeLoopsBack(node, st) ==
    CASE node = "input_node" -> "intent_analysis_node"
      [] node = "intent_analysis_node" -> "conditional_router"
      [] node = "conditional_router" -> RouteBasedOnIntent(st)
      [] node \in Generators -> "code_formatting_node"
      [] node = "code_formatting_node" -> "memory_node"
      [] node = "memory_node" -> "conditional_router"

\* The edges of the compiled workflow: the node that follows `node`.
EdgeFrom(node, st) ==
    CASE node = "input_node" -> "intent_analysis_node"
      [] node = "intent_analysis_node" -> "conditional_router"
      [] node = "conditional_router" -> RouteBasedOnIntent(st)
      [] node \in Generators -> "code_formatting_node"
      [] node = "code_formatting_node" -> "memory_node"
      [] node = "memory_node" -> "END"

\* process_message, after the graph has run: the record built from result.
ExtractResult(res) ==
    LET final_state == Get(res, "memory", EmptyDict)
    IN  [response |-> Get(final_state, "response", NoResponseMsg),
         sources |-> Get(final_state, "sources", <<>>),
         metadata |->
            [intent |-> Get(final_state, "intent", "unknown"),
             current_step |-> Get(final_state, "current_step", "unknown"),
             retrieved_chunks_count |-> Len(Get(final_state, "retrieved_chunks", <<>>))]]

\* An except branch that reports the error in the response only.
ErrorRecordNoKey(e) ==
    [response |-> <<"Error processing your message: ">> \o e,
     sources |-> <<>>,
     metadata |-> EmptyDict]

\* process_message, when the graph run raised e.
ErrorRecord(e) ==
    [response |-> <<"Error processing your message: ">> \o e,
     sources |-> <<>>,
     metadata |-> [error |-> e]]

\* ------------------------------------------------------------------ state

VARIABLES
    request,      \* the arguments of process_message: message, chat_id, chat_history
    index,        \* the chunks of the scope's partition, nearest to the query first
    pc,           \* "idle", the node about to run, "END", "raised" or "returned"
    state,        \* the pipeline state threaded through the nodes
    trace,        \* the nodes that have run, in order
    llmCalls,     \* the model calls made so far: [kind, ok]
    searchCalls,  \* the index queries made so far: [top_k, ok]
    lastLLM,      \* the outcome of the model call of the node that ran last
    exc,          \* the description of the exception that escaped the graph
    result        \* the record process_message returned

\* The service around the pipeline: what the HTTP handlers, ChatService,
\* DocumentProcessor and VectorStore keep.  A dict keyed by chat id or by
\* collection name holds only the keys that exist.
VARIABLES
    sessions,     \* ChatSession rows by chat_id: [url, status, progress, error_message]
    messages,     \* ChatMessage rows in insertion order: [kind, chat_id, role, content, sources]
    chunkRows,    \* DocumentChunk rows: [chat_id, chunk_id]
    collections,  \* the index: collection name -> the chunks added, in order
    cached,       \* VectorStore.collections: the names with a cached handle
    checkpoint,   \* MemorySaver: thread_id -> the state saved by the last run
    ingests,      \* the process-documentation requests made, in order
    chats,        \* the chat requests made, in order
    deletes       \* the delete requests made, in order

pipeVars == <<request, index, pc, state, trace, llmCalls, searchCalls, lastLLM, exc, result>>
svcVars == <<sessions, messages, chunkRows, collections, cached, checkpoint,
             ingests, chats, deletes>>

\* The two functions checked on their own: the chunker of DocumentProcessor
\* and the formatting of code_formatting_node, each applied once to an input.
VARIABLES
    document,     \* the extracted content handed to the chunker: [title, sections, code_blocks]
    limit,        \* settings.max_chunk_size
    pieces,       \* the chunks the chunker returned
    answer,       \* the response text handed to the formatting
    shown,        \* the response text the formatting returned
    applied       \* whether the function has been applied

fnVars == <<document, limit, pieces, answer, shown, applied>>
vars == <<pipeVars, svcVars, fnVars>>

\* No function is under check.
FnIdle ==
    /\ document = [title |-> <<>>, sections |-> <<>>, code_blocks |-> <<>>]
    /\ limit = 0
    /\ pieces = <<>>
    /\ answer = <<>>
    /\ shown = <<>>
    /\ applied = FALSE

\* No request has reached the service: empty tables, empty index.
ServiceIdle ==
    /\ sessions = EmptyDict
    /\ messages = <<>>
    /\ chunkRows = {}
    /\ collections = EmptyDict
    /\ cached = {}
    /\ checkpoint = EmptyDict
    /\ ingests = <<>>
    /\ chats = <<>>
    /\ deletes = <<>>

UserMessage == <<"How do I send a GET request?">>
ChatId == "chat-1"

Requests ==
    {[message |-> UserMessage, chat_id |-> ChatId, chat_history |-> h] : h \in Histories}

Init ==
    /\ request \in Requests
    /\ index \in Indexes
    /\ pc = "idle"
    /\ state = EmptyDict
    /\ trace = <<>>
    /\ llmCalls = <<>>
    /\ searchCalls = <<>>
    /\ lastLLM = NoCall
    /\ exc = <<>>
    /\ result = EmptyDict
    /\ ServiceIdle
    /\ FnIdle

\* A node has run to completion: the graph records it and follows its edge.
Advance(node) ==
    /\ trace' = Append(trace, node)
    /\ pc' = EdgeFrom(node, state')

CanRun(node) == pc = node /\ Len(trace) < MaxStages

\* process_message builds the initial state and starts the graph at its
\* entry point.
Invoke ==
    /\ pc = "idle"
    /\ state' = [message |-> request.message,
                 chat_id |-> request.chat_id,
                 chat_history |-> request.chat_history,
                 current_step |-> "started"]
    /\ pc' = "input_node"
    /\ UNCHANGED <<request, index, trace, llmCalls, searchCalls, lastLLM, exc, result>>
    /\ UNCHANGED <<svcVars, fnVars>>

InputStep ==
    /\ CanRun("input_node")
    /\ state' = InputNode(state)
    /\ Advance("input_node")
    /\ UNCHANGED <<request, index, llmCalls, searchCalls, lastLLM, exc, result>>
    /\ UNCHANGED <<svcVars, fnVars>>

\* The context is built outside the try block: a history whose entries lack
\* .role raises out of the node and out of the graph.
IntentStep ==
    /\ CanRun("intent_analysis_node")
    /\ IF ContextRaises(Get(state, "chat_history", <<>>), IntentContext)
       THEN /\ pc' = "raised"
            /\ exc' = AttributeError
            /\ UNCHANGED <<state, trace, llmCalls, lastLLM>>
       ELSE \E llm \in IntentOutcomes :
            /\ state' = IntentAnalysisNode(state, llm)
            /\ llmCalls' = Append(llmCalls, [kind |-> "intent", ok |-> llm.ok])
            /\ lastLLM' = llm
            /\ Advance("intent_analysis_node")
            /\ exc' = exc
    /\ UNCHANGED <<request, index, searchCalls, result>>
    /\ UNCHANGED <<svcVars, fnVars>>

RouterStep ==
    /\ CanRun("conditional_router")
    /\ state' = ConditionalRouter(state)
    /\ Advance("conditional_router")
    /\ lastLLM' = NoCall
    /\ UNCHANGED <<request, index, llmCalls, searchCalls, exc, result>>
    /\ UNCHANGED <<svcVars, fnVars>>

\* The body of rag_node run on st, after the model calls and index queries
\* in llmSoFar and searchSoFar: one query at top_k = 5, then at most one
\* model call.
RagRun(st, llmSoFar, searchSoFar) ==
    \E ok \in BOOLEAN :
        LET chunks == Search(index, RagTopK, ok)
        IN  /\ searchCalls' = Append(searchSoFar, [top_k |-> RagTopK, ok |-> ok])
            /\ IF RagCallsLLM(chunks)
                  /\ ~ContextRaises(Get(st, "chat_history", <<>>), RagContext)
               THEN \E llm \in GenOutcomes, srcs \in SourceLists(chunks) :
                    /\ state' = RagNode(st, chunks, llm, srcs)
                    /\ llmCalls' = Append(llmSoFar, [kind |-> "rag", ok |-> llm.ok])
                    /\ lastLLM' = llm
               ELSE /\ state' = RagNode(st, chunks, NoCall, <<>>)
                    /\ llmCalls' = llmSoFar
                    /\ lastLLM' = NoCall

RagStep ==
    /\ CanRun("rag_node")
    /\ RagRun(state, llmCalls, searchCalls)
    /\ Advance("rag_node")
    /\ UNCHANGED <<request, index, exc, result>>
    /\ UNCHANGED <<svcVars, fnVars>>

\* code_analysis_node: one query at top_k = 10 and the filter; with nothing
\* relevant, or when its model call raises, the state goes to rag_node.
CodeStep ==
    /\ CanRun("code_analysis_node")
    /\ \E ok \in BOOLEAN :
        LET code_chunks == Search(index, CodeTopK, ok)
            relevant == CodeFilter(code_chunks)
            searched == Append(searchCalls, [top_k |-> CodeTopK, ok |-> ok])
        IN  IF CodeDelegates(relevant)
            THEN RagRun(state, llmCalls, searched)
            ELSE \E llm \in GenOutcomes :
                 IF llm.ok
                 THEN \E srcs \in SourceLists(relevant) :
                      /\ state' = CodeAnswer(state, relevant, llm, srcs)
                      /\ llmCalls' = Append(llmCalls, [kind |-> "code", ok |-> TRUE])
                      /\ searchCalls' = searched
                      /\ lastLLM' = llm
                 ELSE RagRun(state,
                             Append(llmCalls, [kind |-> "code", ok |-> FALSE]),
                             searched)
    /\ Advance("code_analysis_node")
    /\ UNCHANGED <<request, index, exc, result>>
    /\ UNCHANGED <<svcVars, fnVars>>

ClarificationStep ==
    /\ CanRun("clarification_node")
    /\ \E llm \in GenOutcomes :
        /\ state' = ClarificationNode(state, llm)
        /\ llmCalls' = Append(llmCalls, [kind |-> "clarification", ok |-> llm.ok])
        /\ lastLLM' = llm
    /\ Advance("clarification_node")
    /\ UNCHANGED <<request, index, searchCalls, exc, result>>
    /\ UNCHANGED <<svcVars, fnVars>>

FormattingStep ==
    /\ CanRun("code_formatting_node")
    /\ state' = CodeFormattingNode(state)
    /\ Advance("code_formatting_node")
    /\ lastLLM' = NoCall
    /\ UNCHANGED <<request, index, llmCalls, searchCalls, exc, result>>
    /\ UNCHANGED <<svcVars, fnVars>>

MemoryStep ==
    /\ CanRun("memory_node")
    /\ state' = MemoryNode(state)
    /\ Advance("memory_node")
    /\ UNCHANGED <<request, index, llmCalls, searchCalls, lastLLM, exc, result>>
    /\ UNCHANGED <<svcVars, fnVars>>

\* The graph reached END: process_message builds its record from the result.
Return ==
    /\ pc = "END"
    /\ result' = ExtractResult(state)
    /\ pc' = "returned"
    /\ UNCHANGED <<request, index, state, trace, llmCalls, searchCalls, lastLLM, exc>>
    /\ UNCHANGED <<svcVars, fnVars>>

\* The graph run raised: process_message answers with the error record.
Except ==
    /\ pc = "raised"
    /\ result' = ErrorRecord(exc)
    /\ pc' = "returned"
    /\ UNCHANGED <<request, index, state, trace, llmCalls, searchCalls, lastLLM, exc>>
    /\ UNCHANGED <<svcVars, fnVars>>

Next ==
    \/ Invoke
    \/ InputStep
    \/ IntentStep
    \/ RouterStep
    \/ RagStep
    \/ CodeStep
    \/ ClarificationStep
    \/ FormattingStep
    \/ MemoryStep
    \/ Return
    \/ Except

Spec == Init /\ [][Next]_vars

\* The event loop resumes a suspended run whenever the call it awaits has
\* returned or failed, so a run that can take a step eventually takes it.
\* Termination is checked on the runs over the smaller partitions.
LiveInit == Init /\ Len(index) <= MaxLiveIndex

FairSpec == LiveInit /\ [][Next]_vars /\ WF_vars(Next)

\* ------------------------------------------------- the router on any state

RouterIntents == ValidIntents \cup {"SMALL_TALK", ""}

\* The states conditional_router can be handed: any intent, or none.
RouterStates ==
    LET base(h) == [message |-> UserMessage, chat_id |-> ChatId, chat_history |-> h,
                    user_message |-> UserMessage, current_step |-> "intent_analyzed"]
    IN  {base(h) : h \in Histories}
            \cup {Merge(base(h), [intent |-> i]) : h \in Histories, i \in RouterIntents}

RouterInit ==
    /\ state \in RouterStates
    /\ request = [message |-> state.message, chat_id |-> state.chat_id,
                  chat_history |-> state.chat_history]
    /\ index \in {idx \in Indexes : Len(idx) <= 2}
    /\ pc = "conditional_router"
    /\ trace = <<"input_node", "intent_analysis_node">>
    /\ llmCalls = <<>>
    /\ searchCalls = <<>>
    /\ lastLLM = NoCall
    /\ exc = <<>>
    /\ result = EmptyDict
    /\ ServiceIdle
    /\ FnIdle

RouterNext == RouterStep \/ RagStep \/ CodeStep \/ ClarificationStep

SpecRouter == RouterInit /\ [][RouterNext]_vars

\* ------------------------------------------------------------- the service

\* The most process-documentation, chat and delete requests made; the most
\* chat requests made while scopes are also ingested and deleted.
MaxIngests == 2
MaxChats == 3
MaxDeletes == 1
MaxServiceChats == 2

Scopes == {"A", "B"}
None == "None"

\* A page with no title, no section and no code block.
UrlBlank == "https://docs.example/blank"
Urls == {UrlA, UrlBlank}

\* ---------------------------------------------------------------- chunking

\* text.split('\n\n'): the pieces between the leftmost non-overlapping blank
\* lines; a text without one is its only piece.
RECURSIVE SplitParagraphs(_)
SplitParagraphs(text) ==
    LET at == {i \in 1..(Len(text) - 1) : text[i] = NL /\ text[i + 1] = NL}
    IN  IF at = {} THEN <<text>>
        ELSE LET i == CHOOSE x \in at : \A y \in at : x <= y
             IN  <<SubSeq(text, 1, i - 1)>>
                    \o SplitParagraphs(SubSeq(text, i + 2, Len(text)))

BlankLine == <<NL, NL>>
Continued == <<" ", "(", "c", "o", "n", "t", "i", "n", "u", "e", "d", ")">>
TitlePrefix == <<"T", "i", "t", "l", "e", ":", " ">>

\* The metadata of the chunks made from a section.
SectionMetadata(title, url, section_id, level, chunk_type) ==
    [url |-> url, section |-> title, section_id |-> section_id,
     level |-> level, chunk_type |-> chunk_type]

\* The loop without the flush of what is left after the last paragraph.
RECURSIVE SplitLoopNoLastFlush(_, _, _, _, _)
SplitLoopNoLastFlush(paragraphs, title, max_chunk_size, contents, current_chunk) ==
    IF paragraphs = <<>> THEN contents
    ELSE LET paragraph == Strip(Head(paragraphs))
         IN  IF paragraph = <<>>
             THEN SplitLoopNoLastFlush(Tail(paragraphs), title, max_chunk_size,
                                       contents, current_chunk)
             ELSE IF /\ Len(current_chunk) + Len(paragraph) > max_chunk_size
                     /\ Strip(current_chunk) # <<>>
                  THEN SplitLoopNoLastFlush(Tail(paragraphs), title, max_chunk_size,
                                 Append(contents, Strip(current_chunk)),
                                 title \o Continued \o BlankLine
                                    \o paragraph \o BlankLine)
                  ELSE SplitLoopNoLastFlush(Tail(paragraphs), title, max_chunk_size,
                                 contents,
                                 current_chunk \o paragraph \o BlankLine)

\* The loop flushing only a buffer that is already over max_chunk_size.
RECURSIVE SplitLoopLateFlush(_, _, _, _, _)
SplitLoopLateFlush(paragraphs, title, max_chunk_size, contents, current_chunk) ==
    IF paragraphs = <<>>
    THEN IF Strip(current_chunk) # <<>>
         THEN Append(contents, Strip(current_chunk))
         ELSE contents
    ELSE LET paragraph == Strip(Head(paragraphs))
         IN  IF paragraph = <<>>
             THEN SplitLoopLateFlush(Tail(paragraphs), title, max_chunk_size,
                                     contents, current_chunk)
             ELSE IF /\ Len(current_chunk) > max_chunk_size
                     /\ Strip(current_chunk) # <<>>
                  THEN SplitLoopLateFlush(Tail(paragraphs), title, max_chunk_size,
                                 Append(contents, Strip(current_chunk)),
                                 title \o Continued \o BlankLine
                                    \o paragraph \o BlankLine)
                  ELSE SplitLoopLateFlush(Tail(paragraphs), title, max_chunk_size,
                                 contents,
                                 current_chunk \o paragraph \o BlankLine)

\* The loop of _split_text_intelligently over the paragraphs still to come:
\* the contents flushed so far and the running buffer.  A blank paragraph is
\* skipped; the buffer is flushed, stripped, before a paragraph that would
\* take it over max_chunk_size, unless the buffer is blank; what is left in
\* the buffer after the last paragraph is flushed too.
RECURSIVE SplitLoop(_, _, _, _, _)
SplitLoop(paragraphs, title, max_chunk_size, contents, current_chunk) ==
    IF paragraphs = <<>>
    THEN IF Strip(current_chunk) # <<>>
         THEN Append(contents, Strip(current_chunk))
         ELSE contents
    ELSE LET paragraph == Strip(Head(paragraphs))
         IN  IF paragraph = <<>>
             THEN SplitLoop(Tail(paragraphs), title, max_chunk_size,
                            contents, current_chunk)
             ELSE IF /\ Len(current_chunk) + Len(paragraph) > max_chunk_size
                     /\ Strip(current_chunk) # <<>>
                  THEN SplitLoop(Tail(paragraphs), title, max_chunk_size,
                                 Append(contents, Strip(current_chunk)),
                                 title \o Continued \o BlankLine
                                    \o paragraph \o BlankLine)
                  ELSE SplitLoop(Tail(paragraphs), title, max_chunk_size,
                                 contents,
                                 current_chunk \o paragraph \o BlankLine)

\* The split with a first buffer that is not seeded with the title.
SplitTextUnseeded(text, title, url, section_id, level, max_chunk_size, n) ==
    LET contents == SplitLoop(SplitParagraphs(text), title, max_chunk_size,
                              <<>>, BlankLine)
    IN  [k \in 1..Len(contents) |->
            [id |-> n + k,
             content |-> contents[k],
             type |-> "section",
             metadata |-> SectionMetadata(title, url, section_id, level,
                                          "section_part")]]

\* DocumentProcessor._split_text_intelligently, after n identifiers were
\* drawn: the k-th uuid4 of a run is modelled by k.
SplitTextIntelligently(text, title, url, section_id, level, max_chunk_size, n) ==
    LET contents == SplitLoop(SplitParagraphs(text), title, max_chunk_size,
                              <<>>, title \o BlankLine)
    IN  [k \in 1..Len(contents) |->
            [id |-> n + k,
             content |-> contents[k],
             type |-> "section",
             metadata |-> SectionMetadata(title, url, section_id, level,
                                          "section_part")]]

\* The title chunk, when the title is not empty.
TitleChunks(content, url) ==
    IF content.title # <<>>
    THEN <<[id |-> 1,
            content |-> TitlePrefix \o content.title,
            type |-> "title",
            metadata |-> [url |-> url, section |-> <<"t", "i", "t", "l", "e">>,
                          chunk_type |-> "title"]]>>
    ELSE <<>>

\* The loop over the sections splitting a section already at max_chunk_size.
RECURSIVE SectionChunksBelow(_, _, _, _)
SectionChunksBelow(sections, url, max_chunk_size, chunks) ==
    IF sections = <<>> THEN chunks
    ELSE LET section == Head(sections)
         IN  SectionChunksBelow(Tail(sections), url, max_chunk_size,
                IF Len(section.content) < max_chunk_size
                THEN Append(chunks,
                        [id |-> Len(chunks) + 1,
                         content |-> section.title \o BlankLine \o section.content,
                         type |-> "section",
                         metadata |-> SectionMetadata(section.title, url,
                                        section.id, section.level, "section")])
                ELSE chunks \o SplitTextIntelligently(section.content,
                                section.title, url, section.id, section.level,
                                max_chunk_size, Len(chunks)))

\* The loop over the sections: one chunk for a section whose content is at
\* most max_chunk_size long, the split otherwise.
RECURSIVE SectionChunks(_, _, _, _)
SectionChunks(sections, url, max_chunk_size, chunks) ==
    IF sections = <<>> THEN chunks
    ELSE LET section == Head(sections)
         IN  SectionChunks(Tail(sections), url, max_chunk_size,
                IF Len(section.content) <= max_chunk_size
                THEN Append(chunks,
                        [id |-> Len(chunks) + 1,
                         content |-> section.title \o BlankLine \o section.content,
                         type |-> "section",
                         metadata |-> SectionMetadata(section.title, url,
                                        section.id, section.level, "section")])
                ELSE chunks \o SplitTextIntelligently(section.content,
                                section.title, url, section.id, section.level,
                                max_chunk_size, Len(chunks)))

\* The chunk of a code block: a caption and the fenced code.
CodeBlockChunk(code_block, url, id) ==
    [id |-> id,
     content |-> <<"C", "o", "d", "e", " ", "B", "l", "o", "c", "k", " ", "(">>
                    \o code_block.language \o <<")", ":", NL>>
                    \o Fence \o code_block.language \o <<NL>>
                    \o code_block.content \o <<NL>> \o Fence,
     type |-> "code",
     metadata |-> [url |-> url, language |-> code_block.language,
                   code_id |-> code_block.id, chunk_type |-> "code"]]

\* DocumentProcessor._create_intelligent_chunks: the title chunk, the
\* chunks of the sections in order, the chunks of the code blocks in order.
CreateIntelligentChunks(content, url, max_chunk_size) ==
    LET chunks == SectionChunks(content.sections, url, max_chunk_size,
                                TitleChunks(content, url))
    IN  chunks \o [k \in 1..Len(content.code_blocks) |->
                      CodeBlockChunk(content.code_blocks[k], url, Len(chunks) + k)]

\* The length of a long paragraph and the widest max_chunk_size tried, which
\* is the setting the service runs with (the setting defaults to 1000; the
\* texts here are scaled down with it).
LongParagraph == 12
WideLimit == 40

Para(c, n) == [i \in 1..n |-> c]

\* A section under a heading with an id attribute.
OtherSection ==
    [title |-> <<"U">>, level |-> 3, content |-> Para("u", 5), id |-> "usage"]

\* A short block without a language class and a long one with one.
CodeBlocks ==
    <<[content |-> <<"x">>, language |-> TextTag, id |-> "code_0"],
      [content |-> Para("y", LongParagraph), language |-> <<"p", "y">>,
       id |-> "code_1"]>>

\* _extract_content on the page at url: the blank page has an empty title
\* tag, no heading and no code; the other a title, a section and a block.
PageContent(url) ==
    IF url = UrlBlank
    THEN [title |-> <<>>, sections |-> <<>>, code_blocks |-> <<>>]
    ELSE [title |-> <<"P">>, sections |-> <<OtherSection>>,
          code_blocks |-> <<CodeBlocks[1]>>]

\* The chunker that yields a chunk for a page without content.
PageChunksNeverEmpty(url, run) ==
    LET chunks == CreateIntelligentChunks(
                    [title |-> <<"U", "n", "t", "i", "t", "l", "e", "d">>,
                     sections |-> PageContent(url).sections,
                     code_blocks |-> PageContent(url).code_blocks],
                    url, WideLimit)
    IN  [k \in 1..Len(chunks) |-> [chunks[k] EXCEPT !.id = <<run, k>>]]

\* DocumentProcessor._create_intelligent_chunks for the page at url, in the
\* run-th ingestion: every chunk gets a fresh uuid4 and the page's url.
PageChunks(url, run) ==
    LET chunks == CreateIntelligentChunks(PageContent(url), url, WideLimit)
    IN  [k \in 1..Len(chunks) |-> [chunks[k] EXCEPT !.id = <<run, k>>]]

Remove(d, k) == [x \in (DOMAIN d) \ {k} |-> d[x]]

\* DocumentProcessor._update_session_status: nothing without a session; the
\* error message is written only when one is given.
UpdateSessionStatus(ss, chat_id, status, progress, error_message) ==
    IF chat_id \notin DOMAIN ss THEN ss
    ELSE [ss EXCEPT ![chat_id] =
            [url |-> @.url,
             status |-> status,
             progress |-> progress,
             error_message |-> IF error_message # None THEN error_message
                               ELSE @.error_message]]

\* A collection named for every chat id alike.
CollectionNameShared(chat_id) == "chat"

\* The name of the collection that holds a chat id's chunks.
CollectionName(chat_id) == "chat_" \o chat_id

IngestAt(i, p) == i \in 1..Len(ingests) /\ ingests[i].pc = p
IngestTo(i, p) == ingests' = [ingests EXCEPT ![i].pc = p]

\* The handler without the look-up of an existing session.
IngestRequestUnchecked(chat_id, url) ==
    /\ Len(ingests) < MaxIngests
    /\ sessions' = Merge(sessions, chat_id :>
            [url |-> url, status |-> "pending", progress |-> 0,
             error_message |-> None])
    /\ ingests' = Append(ingests, [chat_id |-> chat_id, url |-> url,
                                   pc |-> "queued", chunks |-> <<>>])
    /\ UNCHANGED <<messages, chunkRows, collections, cached, checkpoint, chats, deletes>>
    /\ UNCHANGED <<pipeVars, fnVars>>

\* POST /api/v1/process-documentation: 400 when the chat id has a session;
\* otherwise a pending session and a queued background task.
IngestRequest(chat_id, url) ==
    /\ Len(ingests) < MaxIngests
    /\ IF chat_id \in DOMAIN sessions
       THEN /\ ingests' = Append(ingests, [chat_id |-> chat_id, url |-> url,
                                           pc |-> "rejected", chunks |-> <<>>])
            /\ UNCHANGED sessions
       ELSE /\ sessions' = Merge(sessions, chat_id :>
                    [url |-> url, status |-> "pending", progress |-> 0,
                     error_message |-> None])
            /\ ingests' = Append(ingests, [chat_id |-> chat_id, url |-> url,
                                           pc |-> "queued", chunks |-> <<>>])
    /\ UNCHANGED <<messages, chunkRows, collections, cached, checkpoint, chats, deletes>>
    /\ UNCHANGED <<pipeVars, fnVars>>

\* process_documentation, up to the fetch.
IngestStart(i) ==
    /\ IngestAt(i, "queued")
    /\ sessions' = UpdateSessionStatus(sessions, ingests[i].chat_id, "processing", 10, None)
    /\ IngestTo(i, "fetch")
    /\ UNCHANGED <<messages, chunkRows, collections, cached, checkpoint, chats, deletes>>
    /\ UNCHANGED <<pipeVars, fnVars>>

\* _fetch_url returned the page, or None after any failure.
IngestFetch(i) ==
    /\ IngestAt(i, "fetch")
    /\ \E ok \in BOOLEAN :
        IF ok
        THEN /\ sessions' = UpdateSessionStatus(sessions, ingests[i].chat_id,
                                                "processing", 30, None)
             /\ IngestTo(i, "extract")
        ELSE /\ sessions' = UpdateSessionStatus(sessions, ingests[i].chat_id,
                                                "failed", 0, "Failed to fetch URL")
             /\ IngestTo(i, "done")
    /\ UNCHANGED <<messages, chunkRows, collections, cached, checkpoint, chats, deletes>>
    /\ UNCHANGED <<pipeVars, fnVars>>

\* _extract_content returns a dict of three keys, which is never falsy.
IngestExtract(i) ==
    /\ IngestAt(i, "extract")
    /\ sessions' = UpdateSessionStatus(sessions, ingests[i].chat_id, "processing", 50, None)
    /\ IngestTo(i, "chunk")
    /\ UNCHANGED <<messages, chunkRows, collections, cached, checkpoint, chats, deletes>>
    /\ UNCHANGED <<pipeVars, fnVars>>

\* _create_intelligent_chunks, and the failure when it returns no chunk.
IngestChunk(i) ==
    /\ IngestAt(i, "chunk")
    /\ LET chunks == PageChunks(ingests[i].url, i)
       IN  IF chunks = <<>>
           THEN /\ sessions' = UpdateSessionStatus(sessions, ingests[i].chat_id,
                                                   "failed", 0, "No chunks created")
                /\ IngestTo(i, "done")
           ELSE /\ sessions' = UpdateSessionStatus(sessions, ingests[i].chat_id,
                                                   "processing", 70, None)
                /\ ingests' = [ingests EXCEPT ![i].pc = "store", ![i].chunks = chunks]
    /\ UNCHANGED <<messages, chunkRows, collections, cached, checkpoint, chats, deletes>>
    /\ UNCHANGED <<pipeVars, fnVars>>

\* _store_chunks, first half: the DocumentChunk rows are committed, or the
\* commit raises, nothing is written and the exception reaches the except
\* branch of process_documentation.
IngestStore(i) ==
    /\ IngestAt(i, "store")
    /\ \E ok \in BOOLEAN :
        IF ok
        THEN /\ chunkRows' = chunkRows \cup
                    {[chat_id |-> ingests[i].chat_id, chunk_id |-> ingests[i].chunks[k].id] :
                        k \in 1..Len(ingests[i].chunks)}
             /\ IngestTo(i, "index")
             /\ UNCHANGED sessions
        ELSE /\ sessions' = UpdateSessionStatus(sessions, ingests[i].chat_id,
                                    "failed", 0, "chunk table unavailable")
             /\ IngestTo(i, "done")
             /\ UNCHANGED chunkRows
    /\ UNCHANGED <<messages, collections, cached, checkpoint, chats, deletes>>
    /\ UNCHANGED <<pipeVars, fnVars>>

\* _store_chunks, second half: VectorStore.add_chunks.  It can fail before
\* the collection exists or while adding; the exception reaches the except
\* branch of process_documentation.
IngestIndex(i) ==
    /\ IngestAt(i, "index")
    /\ LET name == CollectionName(ingests[i].chat_id)
           created == IF name \in DOMAIN collections THEN collections
                      ELSE Merge(collections, name :> <<>>)
       IN  \E fail \in {"no", "create", "add"} :
            /\ collections' =
                    CASE fail = "no" ->
                            [created EXCEPT ![name] = @ \o ingests[i].chunks]
                      [] fail = "create" -> collections
                      [] fail = "add" -> created
            /\ cached' = IF fail = "create" THEN cached ELSE cached \cup {name}
            /\ IF fail = "no"
               THEN /\ IngestTo(i, "complete")
                    /\ UNCHANGED sessions
               ELSE /\ sessions' = UpdateSessionStatus(sessions, ingests[i].chat_id,
                                        "failed", 0, "index unavailable")
                    /\ IngestTo(i, "done")
    /\ UNCHANGED <<messages, chunkRows, checkpoint, chats, deletes>>
    /\ UNCHANGED <<pipeVars, fnVars>>

\* The end of a run that returns without the last status write.
IngestCompleteSilent(i) ==
    /\ IngestAt(i, "complete")
    /\ IngestTo(i, "done")
    /\ UNCHANGED <<sessions, messages, chunkRows, collections, cached, checkpoint, chats, deletes>>
    /\ UNCHANGED <<pipeVars, fnVars>>

\* process_documentation, after _store_chunks returned.
IngestComplete(i) ==
    /\ IngestAt(i, "complete")
    /\ sessions' = UpdateSessionStatus(sessions, ingests[i].chat_id, "completed", 100, None)
    /\ IngestTo(i, "done")
    /\ UNCHANGED <<messages, chunkRows, collections, cached, checkpoint, chats, deletes>>
    /\ UNCHANGED <<pipeVars, fnVars>>

\* ----------------------------------------------------- the service: chat

\* The text of the k-th chat request.
UserText(k) == <<"question " \o ToString(k)>>

SessionMissingMsg == <<"Error: Chat session not found. Please process documentation first.">>
StillProcessingMsg == <<"Error: Documentation is still being processed. Please wait.">>

\* A history query that returns the newest row only.
GetChatHistoryLast(msgs, chat_id) ==
    LET rows == SelectSeq(msgs, LAMBDA m : m.chat_id = chat_id)
    IN  IF rows = <<>> THEN <<>> ELSE <<rows[Len(rows)]>>

\* ChatService._get_chat_history: the rows of the chat id, oldest first.
GetChatHistory(msgs, chat_id) == SelectSeq(msgs, LAMBDA m : m.chat_id = chat_id)

\* A row written with the role of the user whatever the author.
ChatMessageRowAllUser(chat_id, role, content, sources) ==
    [kind |-> "ChatMessage", chat_id |-> chat_id, role |-> "user",
     content |-> content, sources |-> sources]

ChatMessageRow(chat_id, role, content, sources) ==
    [kind |-> "ChatMessage", chat_id |-> chat_id, role |-> role,
     content |-> content, sources |-> sources]

\* AgentGraph.process_message: the initial state of a run.
InitialState(message, chat_id, chat_history) ==
    [message |-> message, chat_id |-> chat_id, chat_history |-> chat_history,
     current_step |-> "started"]

\* A graph whose state has one channel per key: the input is laid over the
\* state saved for the thread.
GraphInputMerged(saved, input) == Merge(saved, input)

\* graph.ainvoke(initial_state, config) on a thread that has a saved state:
\* the schema is a plain dict, so the state is one value and the input
\* replaces it whole.
GraphInput(saved, input) == input

\* The states rag_node can return for the partition idx.
RagStates(st, idx, ok, llm) ==
    LET chunks == Search(idx, RagTopK, ok)
    IN  IF RagCallsLLM(chunks)
        THEN {RagNode(st, chunks, llm, srcs) : srcs \in SourceLists(chunks)}
        ELSE {RagNode(st, chunks, NoCall, <<>>)}

\* The states the generator chosen by the router can return; o holds the
\* outcome of the generator's model call and of the call that follows a
\* failed code-analysis call.
GeneratorStates(st, idx, ok, o) ==
    LET node == RouteBasedOnIntent(st)
        relevant == CodeFilter(Search(idx, CodeTopK, ok))
    IN  CASE node = "clarification_node" -> {ClarificationNode(st, o.gen)}
          [] node = "code_analysis_node" /\ ~CodeDelegates(relevant) /\ o.gen.ok ->
                {CodeAnswer(st, relevant, o.gen, srcs) : srcs \in SourceLists(relevant)}
          [] node = "code_analysis_node" /\ ~CodeDelegates(relevant) /\ ~o.gen.ok ->
                RagStates(st, idx, ok, o.gen2)
          [] OTHER -> RagStates(st, idx, ok, o.gen)

\* The states one run of the compiled graph can end in, started on st0 with
\* history rows that have their attributes.
PipelineStates(st0, idx, ok, o) ==
    LET routed == ConditionalRouter(IntentAnalysisNode(InputNode(st0), o.intent))
    IN  {MemoryNode(CodeFormattingNode(g)) : g \in GeneratorStates(routed, idx, ok, o)}

\* What the model answers during one chat run.
ChatOutcomes ==
    {[intent |-> Answered(AnsGeneral), gen |-> Answered(GenPlain), gen2 |-> NoCall],
     [intent |-> Answered(AnsGeneral), gen |-> LLMError, gen2 |-> NoCall],
     [intent |-> Answered(AnsCode), gen |-> LLMError, gen2 |-> Answered(GenPlain)],
     [intent |-> Answered(AnsClarify), gen |-> Answered(GenPlain), gen2 |-> NoCall]}

\* The ids of the chunks a query returns (the ids themselves are not copied
\* into the result).
TopIds(idx, top_k, ok) ==
    IF ~ok THEN {} ELSE {idx[k].id : k \in 1..Min(top_k, Len(idx))}

ChatRecord(chat_id, message, p, history, response) ==
    [chat_id |-> chat_id, message |-> message, pc |-> p, history |-> history,
     start |-> EmptyDict, state |-> EmptyDict, retrieved |-> {},
     response |-> response, sources |-> <<>>]

\* process_message without the test of the session's status.
ChatBeginAnyStatus(chat_id) ==
    /\ Len(chats) < MaxChats
    /\ LET message == UserText(Len(chats) + 1)
       IN  IF chat_id \notin DOMAIN sessions
           THEN /\ chats' = Append(chats, ChatRecord(chat_id, message, "refused", <<>>,
                                                     SessionMissingMsg))
                /\ UNCHANGED messages
           ELSE /\ messages' = Append(messages, ChatMessageRow(chat_id, "user", message, <<>>))
                /\ chats' = Append(chats,
                        ChatRecord(chat_id, message, "agent",
                                   GetChatHistory(messages', chat_id), <<>>))
    /\ UNCHANGED <<sessions, chunkRows, collections, cached, checkpoint, ingests, deletes>>
    /\ UNCHANGED <<pipeVars, fnVars>>

\* ChatService.process_message up to the call of the pipeline: the session
\* checks, the user row, the history query.
ChatBegin(chat_id) ==
    /\ Len(chats) < MaxChats
    /\ LET message == UserText(Len(chats) + 1)
           refuse(text) ==
                /\ chats' = Append(chats, ChatRecord(chat_id, message, "refused", <<>>, text))
                /\ UNCHANGED messages
       IN  IF chat_id \notin DOMAIN sessions THEN refuse(SessionMissingMsg)
           ELSE IF sessions[chat_id].status # "completed" THEN refuse(StillProcessingMsg)
           ELSE /\ messages' = Append(messages, ChatMessageRow(chat_id, "user", message, <<>>))
                /\ chats' = Append(chats,
                        ChatRecord(chat_id, message, "agent",
                                   GetChatHistory(messages', chat_id), <<>>))
    /\ UNCHANGED <<sessions, chunkRows, collections, cached, checkpoint, ingests, deletes>>
    /\ UNCHANGED <<pipeVars, fnVars>>

\* agent_graph.process_message: the run of the graph on the chat's thread and
\* the record built from its result.
ChatAgent(i) ==
    /\ i \in 1..Len(chats)
    /\ chats[i].pc = "agent"
    /\ LET c == chats[i]
           name == CollectionName(c.chat_id)
           ok == name \in DOMAIN collections
           idx == IF ok THEN collections[name] ELSE <<>>
           start == GraphInput(Get(checkpoint, c.chat_id, EmptyDict),
                               InitialState(c.message, c.chat_id, c.history))
       IN  \E o \in ChatOutcomes : \E f \in PipelineStates(start, idx, ok, o) :
            LET searched == f.next_node # "clarification_node"
                top_k == IF f.next_node = "code_analysis_node" THEN CodeTopK ELSE RagTopK
            IN  /\ chats' = [chats EXCEPT ![i] =
                        [c EXCEPT !.pc = "reply", !.start = start, !.state = f,
                                  !.retrieved = IF searched THEN TopIds(idx, top_k, ok) ELSE {},
                                  !.response = ExtractResult(f).response,
                                  !.sources = ExtractResult(f).sources]]
                /\ checkpoint' = Merge(checkpoint, c.chat_id :> f)
                /\ cached' = IF searched /\ ok THEN cached \cup {name} ELSE cached
    /\ UNCHANGED <<sessions, messages, chunkRows, collections, ingests, deletes>>
    /\ UNCHANGED <<pipeVars, fnVars>>

\* ChatService.process_message after the pipeline returned: the assistant
\* row and the response.
ChatFinish(i) ==
    /\ i \in 1..Len(chats)
    /\ chats[i].pc = "reply"
    /\ messages' = Append(messages,
            ChatMessageRow(chats[i].chat_id, "assistant", chats[i].response, chats[i].sources))
    /\ chats' = [chats EXCEPT ![i].pc = "done"]
    /\ UNCHANGED <<sessions, chunkRows, collections, cached, checkpoint, ingests, deletes>>
    /\ UNCHANGED <<pipeVars, fnVars>>

\* --------------------------------------------------- the service: delete

\* The status no handler has answered with yet.
Pending == 0

\* DELETE /api/v1/chat/{chat_id}: 200 when delete_chat returned True, 404
\* when it returned False.
DeleteStatus(success) == IF success THEN 200 ELSE 404

\* ChatService.delete_chat, the database half: the message rows and the
\* session row of the chat id go in one commit.
DeleteRows(chat_id) ==
    /\ Len(deletes) < MaxDeletes
    /\ messages' = SelectSeq(messages, LAMBDA m : m.chat_id # chat_id)
    /\ sessions' = Remove(sessions, chat_id)
    /\ deletes' = Append(deletes, [chat_id |-> chat_id, pc |-> "index",
                                   had_session |-> chat_id \in DOMAIN sessions,
                                   code |-> Pending])
    /\ UNCHANGED <<chunkRows, collections, cached, checkpoint, ingests, chats>>
    /\ UNCHANGED <<pipeVars, fnVars>>

\* VectorStore.delete_chat_data: the cached handle and the collection go; a
\* missing collection raises and the exception is swallowed.  delete_chat
\* then returns True, whether or not the chat id had a session.
DeleteIndex(j) ==
    /\ j \in 1..Len(deletes)
    /\ deletes[j].pc = "index"
    /\ LET name == CollectionName(deletes[j].chat_id)
       IN  /\ cached' = cached \ {name}
           /\ collections' = Remove(collections, name)
    /\ deletes' = [deletes EXCEPT ![j].pc = "done", ![j].code = DeleteStatus(TRUE)]
    /\ UNCHANGED <<sessions, messages, chunkRows, checkpoint, ingests, chats>>
    /\ UNCHANGED <<pipeVars, fnVars>>

\* ------------------------------------------ the service: its specification

\* No message is in the pipeline on its own.
PipelineIdle ==
    /\ request = [message |-> UserMessage, chat_id |-> ChatId, chat_history |-> <<>>]
    /\ index = <<>>
    /\ pc = "idle"
    /\ state = EmptyDict
    /\ trace = <<>>
    /\ llmCalls = <<>>
    /\ searchCalls = <<>>
    /\ lastLLM = NoCall
    /\ exc = <<>>
    /\ result = EmptyDict

ServiceInit == ServiceIdle /\ PipelineIdle /\ FnIdle

ServiceNext ==
    \/ \E chat_id \in Scopes, url \in Urls : IngestRequest(chat_id, url)
    \/ \E i \in 1..MaxIngests : IngestStart(i)
    \/ \E i \in 1..MaxIngests : IngestFetch(i)
    \/ \E i \in 1..MaxIngests : IngestExtract(i)
    \/ \E i \in 1..MaxIngests : IngestChunk(i)
    \/ \E i \in 1..MaxIngests : IngestStore(i)
    \/ \E i \in 1..MaxIngests : IngestIndex(i)
    \/ \E i \in 1..MaxIngests : IngestComplete(i)
    \/ Len(chats) < MaxServiceChats /\ \E chat_id \in Scopes : ChatBegin(chat_id)
    \/ \E i \in 1..MaxChats : ChatAgent(i)
    \/ \E i \in 1..MaxChats : ChatFinish(i)
    \/ \E chat_id \in Scopes : DeleteRows(chat_id)
    \/ \E j \in 1..MaxDeletes : DeleteIndex(j)

SpecService == ServiceInit /\ [][ServiceNext]_vars

\* Ingestion and deletion without chat requests.  A background run takes
\* its next step whenever the call it waits for has returned or failed, and
\* a delete that removed the rows goes on to the index; requests arrive or
\* not.
IngestRun(i) ==
    \/ IngestStart(i) \/ IngestFetch(i) \/ IngestExtract(i) \/ IngestChunk(i)
    \/ IngestStore(i) \/ IngestIndex(i) \/ IngestComplete(i)

IngestNext ==
    \/ \E chat_id \in Scopes, url \in Urls : IngestRequest(chat_id, url)
    \/ \E i \in 1..MaxIngests : IngestRun(i)
    \/ \E chat_id \in Scopes : DeleteRows(chat_id)
    \/ \E j \in 1..MaxDeletes : DeleteIndex(j)

SpecIngest ==
    /\ ServiceInit
    /\ [][IngestNext]_vars
    /\ \A i \in 1..MaxIngests : WF_vars(IngestRun(i))
    /\ \A j \in 1..MaxDeletes : WF_vars(DeleteIndex(j))

\* ------------------------------------------------- the chunker on its own

\* The most blank-line separated pieces of a section's content, the length
\* of the long paragraph, and the values of max_chunk_size tried (the
\* setting defaults to 1000; the texts here are scaled down with it).
MaxParagraphs == 4
SmallLimit == 8
MiddleLimit == 20

\* What stands between two blank lines of a content: a short, a medium and
\* a long paragraph, a further line break, and a paragraph of two lines with
\* blanks around it.
PiecePool ==
    {Para("a", 1), Para("b", 3), Para("c", LongParagraph), <<NL>>,
     <<" ", "d", NL, "d", " ">>}

RECURSIVE JoinBlank(_)
JoinBlank(ps) ==
    IF Len(ps) = 0 THEN <<>>
    ELSE IF Len(ps) = 1 THEN ps[1]
    ELSE ps[1] \o BlankLine \o JoinBlank(Tail(ps))

\* The contents _extract_sections can hand over: ' '.join of trimmed parts,
\* so not empty and with no blank at either end.
Contents ==
    {c \in {JoinBlank(ps) :
                ps \in UNION {[1..n -> PiecePool] : n \in 1..MaxParagraphs}} :
        c # <<>> /\ Strip(c) = c}

\* A heading may have no text; its id is the id attribute or section_<i>.
MainSections ==
    {[title |-> t, level |-> 2, content |-> c, id |-> "section_0"] :
        t \in {<<>>, <<"T">>}, c \in Contents}

Documents ==
    {[title |-> t, sections |-> ss, code_blocks |-> cs] :
        t \in {<<>>, <<"P">>},
        ss \in {<<>>} \cup {<<s>> : s \in MainSections}
                      \cup {<<s, OtherSection>> : s \in MainSections}
                      \cup {<<OtherSection, s>> : s \in MainSections},
        cs \in {SubSeq(CodeBlocks, 1, m) : m \in 0..Len(CodeBlocks)}}

ChunkerInit ==
    /\ ServiceIdle
    /\ PipelineIdle
    /\ document \in Documents
    /\ limit \in {SmallLimit, MiddleLimit, WideLimit}
    /\ pieces = <<>>
    /\ answer = <<>>
    /\ shown = <<>>
    /\ applied = FALSE

\* _create_intelligent_chunks(content, url) under the setting.
CreateChunks ==
    /\ ~applied
    /\ pieces' = CreateIntelligentChunks(document, UrlA, limit)
    /\ applied' = TRUE
    /\ UNCHANGED <<document, limit, answer, shown>>
    /\ UNCHANGED <<pipeVars, svcVars>>

SpecChunker == ChunkerInit /\ [][CreateChunks]_vars

\* ----------------------------------------------- the formatting on its own

\* The longest response text tried; a text is any sequence of backticks,
\* word characters, blanks and line breaks.
MaxText == 9
Answers(n) == [1..n -> {BT, "a", " ", NL}]

FormatInit ==
    /\ ServiceIdle
    /\ PipelineIdle
    /\ document = [title |-> <<>>, sections |-> <<>>, code_blocks |-> <<>>]
    /\ limit = 0
    /\ pieces = <<>>
    /\ \E n \in 0..MaxText : answer \in Answers(n)
    /\ shown = <<>>
    /\ applied = FALSE

\* code_formatting_node on a state holding the response.
Format ==
    /\ ~applied
    /\ shown' = CodeFormattingNode([response |-> answer]).response
    /\ applied' = TRUE
    /\ UNCHANGED <<document, limit, pieces, answer>>
    /\ UNCHANGED <<pipeVars, svcVars>>

SpecFormat == FormatInit /\ [][Format]_vars

\* ------------------------------------------- chat on an ingested scope

\* The service after the page at UrlA was ingested under scope A: the
\* session is completed, the chunks are stored and indexed.
ChatInit ==
    /\ PipelineIdle
    /\ FnIdle
    /\ sessions = "A" :> [url |-> UrlA, status |-> "completed", progress |-> 100,
                           error_message |-> None]
    /\ messages = <<>>
    /\ chunkRows = {[chat_id |-> "A", chunk_id |-> PageChunks(UrlA, 1)[k].id] :
                        k \in 1..Len(PageChunks(UrlA, 1))}
    /\ collections = CollectionName("A") :> PageChunks(UrlA, 1)
    /\ cached = {CollectionName("A")}
    /\ checkpoint = EmptyDict
    /\ ingests = <<[chat_id |-> "A", url |-> UrlA, pc |-> "done",
                     chunks |-> PageChunks(UrlA, 1)]>>
    /\ chats = <<>>
    /\ deletes = <<>>

ChatNext ==
    \/ \E chat_id \in Scopes : ChatBegin(chat_id)
    \/ \E i \in 1..MaxChats : ChatAgent(i)
    \/ \E i \in 1..MaxChats : ChatFinish(i)

\* Messages arrive while others are still being answered.
SpecChat == ChatInit /\ [][ChatNext]_vars

\* No chat run is between its first and its last step.
NoChatInFlight == \A i \in 1..Len(chats) : chats[i].pc \in {"done", "refused"}

SequentialNext ==
    \/ NoChatInFlight /\ \E chat_id \in Scopes : ChatBegin(chat_id)
    \/ \E i \in 1..MaxChats : ChatAgent(i)
    \/ \E i \in 1..MaxChats : ChatFinish(i)

\* The caller sends a message only after the previous one was answered.
SpecSequential == ChatInit /\ [][SequentialNext]_vars

\* ----------------------------------------------------------------- claims

Returned == pc = "returned"
Completed == pc = "returned" /\ exc = <<>>
RanAs(node) == Len(trace) >= 4 /\ trace[4] = node

\* The result of the k-th index query of the run.
QueryResult(k) == Search(index, searchCalls[k].top_k, searchCalls[k].ok)

\* C1: process_message never raises: an exception that escapes the graph is
\* always handled, every record returned holds exactly a response, a sources
\* list and a metadata mapping, and the record returned for an escaped
\* exception describes the error, has no sources and carries the metadata
\* key `error`.
C1_NeverRaises ==
    /\ pc = "raised" => ENABLED Except
    /\ Returned =>
        /\ DOMAIN result = {"response", "sources", "metadata"}
        /\ Len(result.response) > 0
        /\ Len(result.sources) >= 0
    /\ (Returned /\ exc # <<>>) =>
        /\ result.response = <<"Error processing your message: ">> \o exc
        /\ result.sources = <<>>
        /\ "error" \in DOMAIN result.metadata
        /\ result.metadata.error = exc

C1_Witness ==
    /\ Returned
    /\ exc = AttributeError
    /\ "error" \in DOMAIN result.metadata

\* C2: when no exception escapes the graph, the response returned by
\* process_message is the response of the pipeline state after formatting,
\* and the sources returned are the sources of that state.
C2_ReturnsStateResponse ==
    Completed =>
        /\ result.response = state.response
        /\ result.sources = Get(state, "sources", <<>>)

\* C3: for a completed run the returned metadata.intent is the intent the
\* intent-analysis stage wrote and metadata.retrieved_chunks_count is the
\* number of chunks in the state's retrieved_chunks.
C3_ReturnsStateMetadata ==
    Completed =>
        /\ result.metadata.intent = state.intent
        /\ result.metadata.intent \in ValidIntents
        /\ result.metadata.retrieved_chunks_count
              = Len(Get(state, "retrieved_chunks", <<>>))

\* The stage the specification's routing table selects for an intent.
StageFor(intent) ==
    IF intent = "CODE_QUESTION" THEN "code_analysis_node"
    ELSE IF intent = "CLARIFICATION_NEEDED" THEN "clarification_node"
    ELSE "rag_node"

\* The position of every stage in a run whose intent is `intent`.
StageAt(i, intent) ==
    CASE i = 1 -> "input_node"
      [] i = 2 -> "intent_analysis_node"
      [] i = 3 -> "conditional_router"
      [] i = 4 -> StageFor(intent)
      [] i = 5 -> "code_formatting_node"
      [] i = 6 -> "memory_node"

\* C4: the stages of a run execute in the order input, intent analysis,
\* route, one generator, formatting, memory, done: the stages run so far
\* are a prefix of that order, the stage about to run is the next one of it,
\* the generator is the one the intent selects, and the run is done only
\* after all six stages (or after an exception left the graph).
C4_StageOrder ==
    LET n == Len(trace)
        intent == Get(state, "intent", "")
    IN  /\ n <= 6
        /\ \A i \in 1..n : trace[i] = StageAt(i, intent)
        /\ pc = "idle" => n = 0
        /\ pc \in Nodes => n < 6 /\ pc = StageAt(n + 1, intent)
        /\ pc = "raised" => n < 6
        /\ pc = "END" => n = 6
        /\ Completed => n = 6

C4_Witness ==
    /\ Completed
    /\ trace = <<"input_node", "intent_analysis_node", "conditional_router",
                 "code_analysis_node", "code_formatting_node", "memory_node">>

\* The nodes an edge of the workflow leads to from `node`.
Successors(node) ==
    IF node = "conditional_router"
    THEN {EdgeFrom(node, [next_node |-> g]) : g \in Generators}
    ELSE {EdgeFrom(node, EmptyDict)}

RECURSIVE ReachableIn(_, _)
ReachableIn(from, k) ==
    IF k = 0 THEN from
    ELSE LET next == UNION {Successors(n) : n \in from \cap Nodes}
         IN  next \cup ReachableIn(next, k - 1)

GraphAcyclic == \A n \in Nodes : n \notin ReachableIn({n}, Cardinality(Nodes))

\* C5: when every external call returns or fails, every run eventually
\* returns its record, whatever the intent and whichever calls fail, and no
\* node of the workflow can be reached from itself.
C5_Terminates == <>Returned /\ []GraphAcyclic

C5_Witness ==
    /\ Completed
    /\ RanAs("code_analysis_node")
    /\ \E i \in 1..Len(llmCalls) : llmCalls[i].kind = "code" /\ ~llmCalls[i].ok
    /\ \E i \in 1..Len(searchCalls) : ~searchCalls[i].ok

\* C6: once the intent-analysis stage has run, intent is one of the four
\* labels and, right after it, current_step is intent_analyzed; when the
\* call failed or its trimmed, uppercased answer is no label, the intent is
\* GENERAL_QUESTION; a run with that intent goes to general retrieval, and a
\* failed classification call never reaches the caller as an error.
C6_IntentFallback ==
    /\ Len(trace) >= 2 => state.intent \in ValidIntents
    /\ (Len(trace) = 2 /\ pc = "conditional_router") =>
        /\ state.current_step = "intent_analyzed"
        /\ (~lastLLM.ok \/ Join(Upper(Strip(lastLLM.text))) \notin ValidIntents)
              => state.intent = "GENERAL_QUESTION"
    /\ (Len(trace) >= 4 /\ state.intent = "GENERAL_QUESTION") => trace[4] = "rag_node"
    /\ (Len(llmCalls) >= 1 /\ ~llmCalls[1].ok) =>
        /\ state.intent = "GENERAL_QUESTION"
        /\ pc # "raised" /\ exc = <<>>
        /\ Returned => "error" \notin DOMAIN result.metadata

C6_Witness ==
    /\ Completed
    /\ ~llmCalls[1].ok
    /\ state.intent = "GENERAL_QUESTION"
    /\ RanAs("rag_node")

C6_WitnessBadLabel ==
    /\ pc = "conditional_router"
    /\ lastLLM = Answered(AnsOther)
    /\ state.intent = "GENERAL_QUESTION"

\* C7: the stage the router selects depends on the intent alone, by the
\* table GENERAL_QUESTION and FOLLOW_UP to general retrieval, CODE_QUESTION
\* to code retrieval, CLARIFICATION_NEEDED to clarification, anything else
\* or no intent to general retrieval; the generator that runs next is the
\* selected one.
C7_RouterTable ==
    Len(trace) >= 3 =>
        LET selected == StageFor(Get(state, "intent", "<missing>"))
        IN  /\ state.next_node = selected
            /\ Len(trace) = 3 => pc = selected
            /\ Len(trace) >= 4 => trace[4] = selected

C7_Witness ==
    /\ RanAs("rag_node")
    /\ "intent" \in DOMAIN state
    /\ state.intent = "SMALL_TALK"

C7_WitnessMissing ==
    /\ RanAs("rag_node")
    /\ "intent" \notin DOMAIN state

\* C8: when the query of a general-question run returns no chunk, the
\* response process_message returns is the fixed "couldn't find relevant
\* information" message and the sources returned are empty.
C8_NoInfoReturned ==
    (Completed /\ RanAs("rag_node") /\ QueryResult(1) = <<>>) =>
        /\ result.response = NoInfoMsg
        /\ result.sources = <<>>

\* C9: a general-retrieval query that finds no chunk is followed by no model
\* call of rag_node; in a run routed to general retrieval whose query finds
\* nothing, the classification call is the only model call of the run.
C9_ShortCircuit ==
    /\ (RanAs("rag_node") /\ QueryResult(1) = <<>>) =>
        /\ Len(llmCalls) = 1
        /\ llmCalls[1].kind = "intent"
        /\ Len(searchCalls) = 1
    /\ (Len(trace) >= 4
            /\ Len(searchCalls) >= 1
            /\ searchCalls[Len(searchCalls)].top_k = RagTopK
            /\ QueryResult(Len(searchCalls)) = <<>>) =>
        \A i \in 1..Len(llmCalls) : llmCalls[i].kind # "rag"

C9_Witness ==
    /\ Completed
    /\ RanAs("rag_node")
    /\ searchCalls = <<[top_k |-> RagTopK, ok |-> TRUE]>>
    /\ index = <<>>
    /\ state.response = NoInfoMsg
    /\ Len(llmCalls) = 1

\* The code-focused stage has just run and its top-10 query yielded no chunk
\* that passes the code filter.
CodeFoundNothing ==
    /\ Len(trace) = 4
    /\ trace[4] = "code_analysis_node"
    /\ CodeFilter(QueryResult(1)) = <<>>

\* C10: when the top-10 query of the code-focused stage yields no chunk that
\* passes the code filter, the state the stage returns is the state
\* rag_node returns for the same input state: the chunks of a fresh top-5
\* query, the general response, the general sources and current_step
\* rag_completed.
C10_CodeDelegation ==
    [][(pc = "code_analysis_node" /\ CodeFoundNothing') =>
        LET fresh == Search(index, RagTopK, searchCalls'[2].ok)
        IN  /\ Len(searchCalls') = 2
            /\ searchCalls'[2].top_k = RagTopK
            /\ state' = RagNode(state, fresh, lastLLM', Get(state', "sources", <<>>))
            /\ state'.current_step = "rag_completed"
            /\ fresh = <<>> =>
                /\ state'.retrieved_chunks = <<>>
                /\ state'.response = NoInfoMsg
                /\ llmCalls' = llmCalls
            /\ (fresh # <<>> /\ lastLLM'.ok) =>
                /\ state'.retrieved_chunks = fresh
                /\ state'.response = lastLLM'.text
                /\ state'.sources \in SourceLists(fresh)
            /\ (fresh # <<>> /\ ~lastLLM'.ok) =>
                /\ state'.response = <<"Error retrieving information: ">> \o lastLLM'.text
                /\ state'.sources = <<>>
    ]_vars

C10_Witness ==
    /\ CodeFoundNothing
    /\ searchCalls[1].ok
    /\ Len(QueryResult(1)) > RagTopK
    /\ state.current_step = "rag_completed"
    /\ state.response = GenPlain
    /\ Len(state.retrieved_chunks) = RagTopK

\* The general-retrieval stage ran as the generator and its model call failed.
RagCallFailed ==
    /\ RanAs("rag_node")
    /\ Len(llmCalls) = 2
    /\ llmCalls[2] = [kind |-> "rag", ok |-> FALSE]

ErrorResponse(e) == <<"Error retrieving information: ">> \o e

\* C11: when the model call of the general-retrieval stage fails, the stage
\* still completes: its state holds a response echoing the error message, an
\* empty sources list and current_step rag_completed, no exception leaves
\* the graph, and the run goes on to formatting and memory only.
C11_RagFailureSurfaced ==
    RagCallFailed =>
        /\ exc = <<>>
        /\ pc \in {"code_formatting_node", "memory_node", "END", "returned"}
        /\ "sources" \in DOMAIN state /\ state.sources = <<>>
        /\ state.response = ErrorResponse(LLMError.text)
        /\ Len(trace) = 4 =>
            /\ state.current_step = "rag_completed"
            /\ pc = "code_formatting_node"
        /\ Len(trace) = 5 => trace[5] = "code_formatting_node" /\ pc = "memory_node"
        /\ Len(trace) >= 6 =>
            /\ SubSeq(trace, 5, 6) = <<"code_formatting_node", "memory_node">>
            /\ Len(trace) = 6
            /\ state.memory.last_assistant_response = ErrorResponse(LLMError.text)

C11_Witness ==
    /\ RagCallFailed
    /\ Completed
    /\ Len(QueryResult(1)) > 0
    /\ state.response = ErrorResponse(LLMError.text)
    /\ state.sources = <<>>

\* The code-focused stage ran as the generator and its model call failed.
CodeCallFailed ==
    /\ RanAs("code_analysis_node")
    /\ Len(llmCalls) >= 2
    /\ llmCalls[2] = [kind |-> "code", ok |-> FALSE]

\* C12: when the model call of the code-focused stage fails, the
\* failure is surfaced as a response embedding the failure description with
\* empty sources, and the run makes no further model call.
C12_NoFurtherCall ==
    CodeCallFailed =>
        /\ Len(llmCalls) = 2
        /\ state.response = ErrorResponse(LLMError.text)
        /\ "sources" \in DOMAIN state /\ state.sources = <<>>

\* C13: when the index query of a general-retrieval run fails, the state's
\* response is an error response describing the failure, not the fixed
\* response that says no relevant information was found.
C13_QueryFailureSurfaced ==
    (RanAs("rag_node") /\ Len(searchCalls) = 1 /\ ~searchCalls[1].ok) =>
        /\ state.response # NoInfoMsg
        /\ \E e \in {LLMError.text, AttributeError, <<"collection does not exist">>} :
                state.response = ErrorResponse(e)

\* C14: in a run routed to clarification the index is never queried and the
\* sources are the empty list whether the model call succeeds or fails; when
\* the call fails the response is the fixed clarification message.
C14_ClarificationFixed ==
    RanAs("clarification_node") =>
        /\ searchCalls = <<>>
        /\ "sources" \in DOMAIN state /\ state.sources = <<>>
        /\ Len(llmCalls) = 2 /\ llmCalls[2].kind = "clarification"
        /\ ~llmCalls[2].ok => state.response = ClarifyMsg
        /\ (llmCalls[2].ok /\ Len(trace) = 4) => state.response = lastLLM.text
        /\ Completed => result.sources = <<>>

C14_Witness ==
    /\ RanAs("clarification_node")
    /\ Completed
    /\ ~llmCalls[2].ok
    /\ state.response = ClarifyMsg
    /\ state.sources = <<>>

C14_WitnessAnswered ==
    /\ RanAs("clarification_node")
    /\ Len(trace) = 4
    /\ llmCalls[2].ok
    /\ state.response = GenBareFence

\* The keys each stage writes.
Writes(node) ==
    CASE node = "input_node" -> {"user_message", "current_step"}
      [] node = "intent_analysis_node" -> {"intent", "current_step"}
      [] node = "conditional_router" -> {"next_node", "current_step"}
      [] node \in Generators -> {"retrieved_chunks", "response", "sources", "current_step"}
      [] node = "code_formatting_node" -> {"response", "current_step"}
      [] node = "memory_node" -> {"memory"}

\* C15: no stage drops or alters a field it does not own: the state a stage
\* returns holds every key it received, with the value it received for every
\* key the stage does not write, and no new key but the ones it writes.
C15_Frame ==
    [][(pc \in Nodes /\ trace' = Append(trace, pc)) =>
        /\ \A k \in DOMAIN state :
            /\ k \in DOMAIN state'
            /\ k \notin Writes(pc) => state'[k] = state[k]
        /\ DOMAIN state' \subseteq DOMAIN state \cup Writes(pc)
    ]_vars

C15_Witness ==
    /\ Len(trace) = 5
    /\ trace[4] = "code_analysis_node"
    /\ trace[5] = "code_formatting_node"
    /\ state.response # GenBareFence
    /\ lastLLM = NoCall
    /\ Contains(state.response, Fence)
    /\ state.sources # <<>>
    /\ state.retrieved_chunks # <<>>
    /\ state.intent = "CODE_QUESTION"

\* The chat runs whose pipeline has returned.
PipelineDone(c) == c.pc \in {"reply", "done"}
InFlight(c) == c.pc \in {"agent", "reply"}

StageFields == {"intent", "retrieved_chunks", "response", "sources", "next_node", "memory"}

C17_HistoryIsPrior ==
    \A i \in 1..Len(chats) :
        chats[i].pc # "refused" =>
            \A k \in 1..Len(chats[i].history) :
                ~(/\ chats[i].history[k].role = "user"
                  /\ chats[i].history[k].content = chats[i].message)

\* The chat requests on a scope that passed the session checks, in order.
ProcessedOn(chat_id) ==
    SelectSeq(chats, LAMBDA c : c.chat_id = chat_id /\ c.pc # "refused")

IsPrefix(s, t) == Len(s) <= Len(t) /\ SubSeq(t, 1, Len(s)) = s

\* The log of a scope after its messages were processed one at a time: the
\* i-th pair is the i-th message and the response returned for it.
LogInPairs(chat_id) ==
    LET log == GetChatHistory(messages, chat_id)
        runs == ProcessedOn(chat_id)
        k == Len(runs)
    IN  /\ Len(log) = IF k > 0 /\ InFlight(runs[k]) THEN 2 * k - 1 ELSE 2 * k
        /\ \A i \in 1..k :
            /\ log[2 * i - 1].role = "user"
            /\ log[2 * i - 1].content = runs[i].message
            /\ runs[i].pc = "done" =>
                /\ log[2 * i].role = "assistant"
                /\ log[2 * i].content = runs[i].response
                /\ log[2 * i].sources = runs[i].sources

\* C18: after k messages were processed one at a time on a completed scope
\* its log holds exactly 2k entries alternating user, assistant, the i-th
\* pair being the i-th message and the response returned for it, and no
\* step modifies or removes an entry written before.
C18_LogAlternates ==
    /\ [](\A s \in Scopes : LogInPairs(s))
    /\ [][IsPrefix(messages, messages')]_vars

C18_Witness ==
    /\ Len(ProcessedOn("A")) = MaxChats
    /\ NoChatInFlight
    /\ Len(GetChatHistory(messages, "A")) = 2 * MaxChats
    /\ messages[2 * MaxChats].role = "assistant"
    /\ messages[2 * MaxChats].content = chats[MaxChats].response

\* The number of rows of a role in a history.
RowsOf(h, role) == Cardinality({k \in 1..Len(h) : h[k].role = role})

\* C19: runs on one scope are not mutually excluded: whenever two runs of a
\* scope are both between their user entry and their assistant entry, the
\* log of the scope holds two adjacent user entries, and the history of the
\* later run holds the user message of the earlier one with no reply to it
\* (the history has at least two user entries more than assistant entries:
\* the earlier message and the later one are both unanswered in it).
C19_Interleaved ==
    \A i, j \in 1..Len(chats) :
        (i < j /\ chats[i].chat_id = chats[j].chat_id
               /\ InFlight(chats[i]) /\ InFlight(chats[j])) =>
            LET log == GetChatHistory(messages, chats[i].chat_id)
                h == chats[j].history
            IN  /\ \E k \in 1..(Len(log) - 1) :
                        log[k].role = "user" /\ log[k + 1].role = "user"
                /\ \E k \in 1..Len(h) :
                        h[k].role = "user" /\ h[k].content = chats[i].message
                /\ RowsOf(h, "assistant") + 2 <= RowsOf(h, "user")

\* Two messages in flight on scope A: both user entries, no assistant entry.
C19_Witness ==
    /\ Len(chats) >= 2
    /\ chats[1].chat_id = "A" /\ chats[2].chat_id = "A"
    /\ InFlight(chats[1]) /\ InFlight(chats[2])
    /\ Len(messages) = 2
    /\ messages[1].role = "user" /\ messages[2].role = "user"
    /\ Len(chats[2].history) = 2
    /\ chats[2].history[1].content = chats[1].message

\* The scope whose operation took the step: a request of that scope was
\* made or one of its runs moved on.
StepOf(s) ==
    \/ \E i \in 1..Len(ingests') :
        ingests'[i].chat_id = s /\ (i > Len(ingests) \/ ingests'[i] # ingests[i])
    \/ \E i \in 1..Len(chats') :
        chats'[i].chat_id = s /\ (i > Len(chats) \/ chats'[i] # chats[i])
    \/ \E i \in 1..Len(deletes') :
        deletes'[i].chat_id = s /\ (i > Len(deletes) \/ deletes'[i] # deletes[i])

SameAt(d, e, k) ==
    /\ k \in DOMAIN d <=> k \in DOMAIN e
    /\ k \in DOMAIN d => d[k] = e[k]

\* The message log, the session and the partition of a scope are untouched.
ScopeUnchanged(s) ==
    /\ GetChatHistory(messages', s) = GetChatHistory(messages, s)
    /\ SameAt(sessions, sessions', s)
    /\ SameAt(collections, collections', CollectionName(s))

\* Every chunk a run retrieved was ingested under the run's scope.
RetrievedOwn ==
    \A i \in 1..Len(chats) :
        \A id \in chats[i].retrieved : ingests[id[1]].chat_id = chats[i].chat_id

\* C20: scopes are isolated under every interleaving of ingestion, chat and
\* delete on two scopes: every chunk retrieved in a run for a scope was
\* ingested under that scope, and no step of an operation on one scope
\* changes the message log, the session or the partition of the other.
C20_ScopesIsolated ==
    /\ []RetrievedOwn
    /\ [][\A a, b \in Scopes : (a # b /\ StepOf(b) /\ ~StepOf(a)) => ScopeUnchanged(a)]_vars

\* A run for A retrieved chunks while B holds a partition of its own.
C20_Witness ==
    /\ \E i \in 1..Len(chats) : chats[i].chat_id = "A" /\ chats[i].retrieved # {}
    /\ CollectionName("B") \in DOMAIN collections
    /\ collections[CollectionName("B")] # <<>>
    /\ CollectionName("A") \in DOMAIN collections

\* Nothing of a scope is stored after the step: no session, no message, no
\* chunk row, no partition.
NothingRemains(chat_id) ==
    /\ chat_id \notin DOMAIN sessions'
    /\ GetChatHistory(messages', chat_id) = <<>>
    /\ {r \in chunkRows' : r.chat_id = chat_id} = {}
    /\ CollectionName(chat_id) \notin DOMAIN collections'

\* C21: deleting a scope is all-or-nothing: when the delete answers success
\* for a scope that no one is creating again, no session, no message, no
\* stored chunk and no partition of that scope remains.
C21_DeleteLeavesNothing ==
    [][\A j \in 1..Len(deletes) :
        (/\ deletes[j].pc = "index"
         /\ deletes'[j].pc = "done"
         /\ deletes'[j].code = 200
         /\ deletes[j].chat_id \notin DOMAIN sessions
         /\ \A i \in 1..Len(ingests) :
                ingests[i].chat_id = deletes[j].chat_id => ingests[i].pc = "done")
            => NothingRemains(deletes[j].chat_id)
    ]_vars

\* C22: a delete request for a chat id that has no session answers 404 and
\* changes no stored state.
C22_DeleteMissingIs404 ==
    \A j \in 1..Len(deletes) :
        (deletes[j].pc = "done" /\ ~deletes[j].had_session) => deletes[j].code = 404

\* The ingestion runs started for a chat id, and the delete requests made.
StartedIn(runs, chat_id) ==
    Cardinality({i \in 1..Len(runs) :
                    runs[i].chat_id = chat_id /\ runs[i].pc # "rejected"})
StartedFor(chat_id) == StartedIn(ingests, chat_id)
DeletesFor(chat_id) ==
    Cardinality({j \in 1..Len(deletes) : deletes[j].chat_id = chat_id})

\* C23: a process-documentation request for a chat id that has a session is
\* rejected and changes nothing, so that at most one ingestion run has ever
\* been started for each chat id.
C23_OneRunEver == \A s \in Scopes : StartedFor(s) <= 1

\* The step of a process-documentation request.
Requested == Len(ingests') = Len(ingests) + 1

\* C23, amended: a process-documentation request for a chat id that has a
\* session, in any status, is rejected: it changes no session, no chunk row
\* and no partition and starts no run; a request is accepted only for a chat
\* id without session.  Each chat id has at most one session at a time, and
\* the runs started for it are at most one more than the delete requests
\* made for it: one run per session ever created, not one run ever.
C23_OneRunPerSession ==
    /\ [](\A s \in Scopes :
            /\ StartedFor(s) <= 1 + DeletesFor(s)
            /\ s \in DOMAIN sessions => StartedFor(s) >= 1)
    /\ [][Requested =>
            LET r == ingests'[Len(ingests')]
            IN  /\ r.pc = "rejected" <=> r.chat_id \in DOMAIN sessions
                /\ r.pc = "rejected" =>
                    /\ sessions' = sessions
                    /\ chunkRows' = chunkRows
                    /\ collections' = collections
                    /\ StartedIn(ingests', r.chat_id) = StartedFor(r.chat_id)
                /\ r.pc # "rejected" =>
                    /\ r.pc = "queued"
                    /\ sessions'[r.chat_id].status = "pending"
       ]_vars

\* A request was rejected for a chat id whose session is completed.
C23_Witness ==
    \E i \in 1..Len(ingests) :
        /\ ingests[i].pc = "rejected"
        /\ ingests[i].chat_id \in DOMAIN sessions
        /\ sessions[ingests[i].chat_id].status = "completed"
        /\ StartedFor(ingests[i].chat_id) = 1

\* The chunks returned with a given chunk_type, by position.
PiecesOf(chunk_type) ==
    {k \in 1..Len(pieces) : pieces[k].metadata.chunk_type = chunk_type}

\* C24: every chunk other than the title chunk is at most max_chunk_size
\* long; stated for the chunks the claim names, the single section chunks
\* (title plus content) and the code chunks (caption plus fenced code).
C24_SectionAndCodeWithinLimit ==
    applied =>
        \A k \in PiecesOf("section") \cup PiecesOf("code") :
            Len(pieces[k].content) <= limit

\* The non-empty trimmed paragraphs of a text, in order.
Paragraphs(text) ==
    LET split == SplitParagraphs(text)
        NonEmpty(p) == p # <<>>
    IN  SelectSeq([k \in 1..Len(split) |-> Strip(split[k])], NonEmpty)

\* The section_part chunks returned for a section, in order.
PartsOf(section) ==
    LET IsPart(c) == /\ c.metadata.chunk_type = "section_part"
                     /\ c.metadata.section_id = section.id
    IN  SelectSeq(pieces, IsPart)

\* The seed a part starts with, as it stands in the trimmed content.
Seed(title, k) == IF k = 1 THEN Strip(title) ELSE Strip(title \o Continued)

\* The paragraphs of the parts from the k-th on, each part read without its
\* seed.
RECURSIVE ReadBack(_, _, _)
ReadBack(parts, title, k) ==
    IF k > Len(parts) THEN <<>>
    ELSE LET seed == Seed(title, k)
             body == SubSeq(parts[k].content, Len(seed) + 1, Len(parts[k].content))
         IN  Paragraphs(body) \o ReadBack(parts, title, k + 1)

LongSections ==
    {i \in 1..Len(document.sections) : Len(document.sections[i].content) > limit}

\* C25: the parts of a section longer than max_chunk_size, read in order
\* without their seeds, are exactly the section's non-empty trimmed
\* paragraphs: each whole, once, in source order, whatever the parts' lengths.
C25_SplitKeepsParagraphs ==
    applied =>
        \A i \in LongSections :
            LET section == document.sections[i]
                parts == PartsOf(section)
            IN  /\ \A k \in 1..Len(parts) :
                        IsPrefix(Seed(section.title, k), parts[k].content)
                /\ ReadBack(parts, section.title, 1) = Paragraphs(section.content)

\* A long section came back in three parts or more, one of them holding two
\* paragraphs and one of them longer than max_chunk_size.
C25_Witness ==
    /\ applied
    /\ \E i \in LongSections :
        LET parts == PartsOf(document.sections[i])
        IN  /\ Len(parts) >= 3
            /\ \E k \in 1..Len(parts) : Len(parts[k].content) > limit
            /\ \E k \in 1..Len(parts) :
                    Len(ReadBack(<<parts[k]>>, <<>>, 1)) >= 3

\* C26: for a page with a title, n sections none longer than max_chunk_size
\* and m code blocks the chunker returns 1 + n + m chunks: the title chunk,
\* one section chunk per section in source order, one code chunk per code
\* block in source order, and no section_part chunk.
C26_OneChunkEach ==
    (applied /\ document.title # <<>> /\ LongSections = {}) =>
        LET n == Len(document.sections)
            m == Len(document.code_blocks)
        IN  /\ Len(pieces) = 1 + n + m
            /\ pieces[1].metadata.chunk_type = "title"
            /\ pieces[1].content = TitlePrefix \o document.title
            /\ \A i \in 1..n :
                /\ pieces[1 + i].metadata.chunk_type = "section"
                /\ pieces[1 + i].metadata.section_id = document.sections[i].id
                /\ pieces[1 + i].content =
                        document.sections[i].title \o BlankLine
                            \o document.sections[i].content
            /\ \A j \in 1..m :
                /\ pieces[1 + n + j].metadata.chunk_type = "code"
                /\ pieces[1 + n + j].metadata.code_id = document.code_blocks[j].id
            /\ PiecesOf("section_part") = {}

\* Two sections, one of them exactly max_chunk_size long, and two code
\* blocks were chunked.
C26_Witness ==
    /\ applied
    /\ document.title # <<>>
    /\ LongSections = {}
    /\ Len(document.sections) = 2
    /\ Len(document.code_blocks) = 2
    /\ \E i \in 1..2 : Len(document.sections[i].content) = limit
    /\ Len(pieces) = 5

\* The paragraphs of the k-th part, and the length the running buffer had
\* when the j-th of them came up: the seed as written, a blank line, and
\* every paragraph appended before, each with its blank line.  The first
\* paragraph of a later part came up against the buffer of the part before.
PartParagraphs(parts, title, k) == ReadBack(<<parts[k]>>, IF k = 1 THEN title ELSE title \o Continued, 1)
RawSeed(title, k) == IF k = 1 THEN title ELSE title \o Continued
RECURSIVE Appended(_, _)
Appended(ps, j) == IF j = 0 THEN 0 ELSE Len(ps[j]) + 2 + Appended(ps, j - 1)
BufferOf(parts, title, k, j) ==
    Len(RawSeed(title, k)) + 2 + Appended(PartParagraphs(parts, title, k), j)
RunningBuffer(parts, title, k, j) ==
    IF j = 1 /\ k > 1
    THEN BufferOf(parts, title, k - 1, Len(PartParagraphs(parts, title, k - 1)))
    ELSE BufferOf(parts, title, k, j - 1)

\* Every part of a long section is a section_part of that section.
PartsCarrySection ==
    \A i \in LongSections :
        LET section == document.sections[i]
        IN  \A k \in 1..Len(pieces) :
                (/\ pieces[k].metadata.chunk_type \in {"section", "section_part"}
                 /\ pieces[k].metadata.section_id = section.id)
                    => /\ pieces[k].metadata.chunk_type = "section_part"
                       /\ pieces[k].metadata.section = section.title
                       /\ pieces[k].metadata.level = section.level

\* A paragraph starts a new part exactly when the running buffer with it
\* would be longer than max_chunk_size, blank buffers included or not.
StartsWhenOver(section, blankToo) ==
    LET parts == PartsOf(section)
    IN  \A k \in 1..Len(parts) :
            LET ps == PartParagraphs(parts, section.title, k)
            IN  \A j \in 1..Len(ps) :
                    (j = 1 /\ k > 1) <=>
                        /\ RunningBuffer(parts, section.title, k, j) + Len(ps[j]) > limit
                        /\ blankToo \/ ~(section.title = <<>> /\ k = 1 /\ j = 1)

\* C27: the chunks of a section longer than max_chunk_size are section_part
\* chunks with the section's title, id and level; the first begins with the
\* title, every later one with the title followed by " (continued)"; a new
\* chunk starts exactly when the next paragraph would take the running
\* buffer over max_chunk_size.
C27_PartsSeededAndGreedy ==
    applied =>
        /\ PartsCarrySection
        /\ \A i \in LongSections :
            LET section == document.sections[i]
                parts == PartsOf(section)
            IN  /\ \A k \in 1..Len(parts) :
                        IsPrefix(RawSeed(section.title, k), parts[k].content)
                /\ StartsWhenOver(section, TRUE)

\* C27, amended: as C27 for a section whose title is not empty.  For a
\* section whose heading has no text the later chunks begin with
\* "(continued)", the content being trimmed, and the first paragraph never
\* starts a new chunk: a blank buffer is not flushed.
C27_PartsSeededTrimmed ==
    applied =>
        /\ PartsCarrySection
        /\ \A i \in LongSections :
            LET section == document.sections[i]
                parts == PartsOf(section)
            IN  /\ Len(parts) >= 1
                /\ \A k \in 1..Len(parts) :
                        IsPrefix(Seed(section.title, k), parts[k].content)
                /\ section.title # <<>> =>
                        \A k \in 1..Len(parts) :
                            IsPrefix(RawSeed(section.title, k), parts[k].content)
                /\ StartsWhenOver(section, FALSE)

\* A titled long section came back in a part of the title alone and two
\* continued parts; an untitled one came back in two parts or more.
C27_Witness ==
    /\ applied
    /\ \E i \in LongSections :
        LET section == document.sections[i]
            parts == PartsOf(section)
        IN  /\ section.title # <<>>
            /\ Len(parts) >= 3
            /\ parts[1].content = section.title
            /\ IsPrefix(section.title \o Continued \o BlankLine, parts[3].content)
C27_WitnessUntitled ==
    /\ applied
    /\ \E i \in LongSections :
        LET section == document.sections[i]
            parts == PartsOf(section)
        IN  /\ section.title = <<>>
            /\ Len(parts) >= 2
            /\ IsPrefix(Strip(Continued), parts[2].content)

\* The run's page has an empty title, no section and no code block.
BlankPage(i) ==
    PageContent(ingests[i].url) = [title |-> <<>>, sections |-> <<>>, code_blocks |-> <<>>]

\* The chunk rows and indexed chunks made by the i-th run.
StoredBy(i) ==
    {r \in chunkRows : r.chunk_id[1] = i}
IndexedBy(i) ==
    {<<name, k>> \in UNION {{name} \X DOMAIN collections[name] : name \in DOMAIN collections} :
        collections[name][k].id[1] = i}

\* C28: for a page with an empty title, no section and no code block the
\* chunker returns nothing; the run ends there, its session is failed with
\* the message recorded, and no chunk of the run is stored or indexed.
C28_BlankPageFails ==
    /\ [][\A i \in 1..Len(ingests) :
            (ingests[i].pc = "chunk" /\ ingests'[i].pc # "chunk" /\ BlankPage(i)) =>
                /\ CreateIntelligentChunks(PageContent(ingests[i].url),
                                           ingests[i].url, WideLimit) = <<>>
                /\ ingests'[i].pc = "done"
                /\ chunkRows' = chunkRows
                /\ collections' = collections
                /\ ingests[i].chat_id \in DOMAIN sessions =>
                    /\ sessions'[ingests[i].chat_id].status = "failed"
                    /\ sessions'[ingests[i].chat_id].progress = 0
                    /\ sessions'[ingests[i].chat_id].error_message = "No chunks created"
       ]_vars
    /\ [](\A i \in 1..Len(ingests) :
            BlankPage(i) => StoredBy(i) = {} /\ IndexedBy(i) = {})

\* The run on the blank page is over and its session is failed.
C28_Witness ==
    \E i \in 1..Len(ingests) :
        /\ BlankPage(i)
        /\ ingests[i].pc = "done"
        /\ ingests[i].chat_id \in DOMAIN sessions
        /\ sessions[ingests[i].chat_id].status = "failed"
        /\ sessions[ingests[i].chat_id].error_message = "No chunks created"
        /\ StoredBy(i) = {} /\ IndexedBy(i) = {}

\* C29: ingestion never ends half done: when the one run of a scope that was
\* never deleted is over and the session is failed, a message is recorded
\* and the scope has no chunk in the chunk table and none in its partition.
C29_FailedLeavesNoChunk ==
    \A i \in 1..Len(ingests) :
        LET chat_id == ingests[i].chat_id
        IN  (/\ ingests[i].pc = "done"
             /\ StartedFor(chat_id) = 1
             /\ DeletesFor(chat_id) = 0
             /\ sessions[chat_id].status = "failed")
                => /\ sessions[chat_id].error_message # None
                   /\ {r \in chunkRows : r.chat_id = chat_id} = {}
                   /\ Get(collections, CollectionName(chat_id), <<>>) = <<>>

\* The positions of the fence markers of a text that a line break follows
\* directly, and of those a word token and a line break follow.
BareFences(s) ==
    {i \in 1..(Len(s) - 3) : SubSeq(s, i, i + 2) = Fence /\ s[i + 3] = NL}
TaggedFences(s) ==
    {i \in 1..(Len(s) - 4) :
        /\ SubSeq(s, i, i + 2) = Fence
        /\ \E j \in (i + 4)..Len(s) :
            /\ s[j] = NL
            /\ \A k \in (i + 3)..(j - 1) : IsWord(s[k])}

RECURSIVE Concat(_)
Concat(ss) == IF ss = <<>> THEN <<>> ELSE Head(ss) \o Concat(Tail(ss))

\* The text with the tag text written after every bare fence and every
\* character kept.
Tagged(s) ==
    Concat([k \in 1..Len(s) |->
                IF k - 2 \in BareFences(s) THEN <<s[k]>> \o TextTag ELSE <<s[k]>>])

\* C30: the formatting returns a text without fence unchanged; in any other
\* text every fence a line break follows directly gets the tag text, every
\* fence with a word token before the line break keeps it, and no other
\* character changes.
C30_FormatTagsBareFences ==
    applied =>
        /\ ~Contains(answer, Fence) => shown = answer
        /\ shown = Tagged(answer)
        /\ BareFences(shown) = {}
        /\ Cardinality(TaggedFences(shown)) =
                Cardinality(TaggedFences(answer)) + Cardinality(BareFences(answer))

\* A text with a bare and a tagged fence was formatted.
C30_Witness ==
    /\ applied
    /\ BareFences(answer) # {}
    /\ TaggedFences(answer) # {}
    /\ shown # answer

\* A generator stage has written sources into the state.
SourcesWritten == "sources" \in DOMAIN state

\* C31: the sources a generator stage wrote hold no URL twice and no empty
\* URL, and each is the url of a chunk of the run's retrieved_chunks; the
\* chunks the code path kept all passed the code filter.
C31_SourcesFromRetrieved ==
    SourcesWritten =>
        /\ \A i, j \in 1..Len(state.sources) :
                state.sources[i] = state.sources[j] => i = j
        /\ \A i \in 1..Len(state.sources) :
            /\ state.sources[i] # ""
            /\ "retrieved_chunks" \in DOMAIN state
            /\ \E k \in 1..Len(state.retrieved_chunks) :
                    state.retrieved_chunks[k].metadata.url = state.sources[i]
        /\ (state.current_step = "code_analysis_completed") =>
                \A k \in 1..Len(state.retrieved_chunks) :
                    IsCodeRelevant(state.retrieved_chunks[k])

\* The code path answered from two chunks with the same URL and a chunk
\* without URL: one source.
C31_Witness ==
    /\ SourcesWritten
    /\ state.current_step = "code_analysis_completed"
    /\ Len(state.sources) = 1
    /\ \E k \in 1..Len(state.retrieved_chunks) :
            state.retrieved_chunks[k].metadata.url = ""
    /\ \E k, l \in 1..Len(state.retrieved_chunks) :
            k # l /\ state.retrieved_chunks[k].metadata.url = state.sources[1]
                  /\ state.retrieved_chunks[l].metadata.url = state.sources[1]

\* C32: a part is at most max_chunk_size plus one paragraph of its section
\* long, and a part longer than max_chunk_size holds exactly one paragraph
\* after its seed.
C32_OvershootOneParagraph ==
    applied =>
        \A i \in LongSections :
            LET section == document.sections[i]
                parts == PartsOf(section)
                all == Paragraphs(section.content)
            IN  \A k \in 1..Len(parts) :
                    /\ \E p \in 1..Len(all) :
                            Len(parts[k].content) <= limit + Len(all[p])
                    /\ Len(parts[k].content) > limit =>
                            Len(PartParagraphs(parts, section.title, k)) = 1

\* The seed of a continued part and its blank line fit max_chunk_size.
SeedFits(title) == Len(title \o Continued \o BlankLine) <= limit

\* C32, amended: a part longer than max_chunk_size holds at most one
\* paragraph and is as long as its trimmed seed, a blank line and that
\* paragraph; when the continued seed with its blank line fits
\* max_chunk_size, such a part holds exactly one paragraph and is at most
\* max_chunk_size plus that paragraph long.
C32_OvershootSeedAndParagraph ==
    applied =>
        \A i \in LongSections :
            LET section == document.sections[i]
                parts == PartsOf(section)
            IN  \A k \in 1..Len(parts) :
                    LET ps == PartParagraphs(parts, section.title, k)
                        seed == Seed(section.title, k)
                    IN  Len(parts[k].content) > limit =>
                            /\ Len(ps) <= 1
                            /\ Len(ps) = 1 =>
                                Len(parts[k].content) =
                                    Len(seed) + (IF seed = <<>> THEN 0 ELSE 2) + Len(ps[1])
                            /\ SeedFits(section.title) =>
                                /\ Len(ps) = 1
                                /\ Len(parts[k].content) <= limit + Len(ps[1])

\* A continued part whose seed fits holds one paragraph and is longer than
\* max_chunk_size.
C32_Witness ==
    /\ applied
    /\ \E i \in LongSections :
        LET section == document.sections[i]
            parts == PartsOf(section)
        IN  /\ SeedFits(section.title)
            /\ \E k \in 2..Len(parts) :
                /\ Len(parts[k].content) > limit
                /\ Len(PartParagraphs(parts, section.title, k)) = 1

\* C33: whichever generator stage ran, on whichever path, the state entering
\* the formatting stage has a response and a sources field, and after a
\* retrieval stage a retrieved_chunks field as well.
C33_GeneratorFieldsPresent ==
    pc = "code_formatting_node" =>
        /\ "response" \in DOMAIN state
        /\ "sources" \in DOMAIN state
        /\ trace[Len(trace)] \in {"rag_node", "code_analysis_node"} =>
                "retrieved_chunks" \in DOMAIN state

StatusRank(status) ==
    CASE status = "pending" -> 0
      [] status = "processing" -> 1
      [] status \in {"completed", "failed"} -> 2

\* The chunks of a run of the scope that is at its last step are all in the
\* scope's partition.
AllIndexed(chat_id) ==
    \E i \in 1..Len(ingests) :
        /\ ingests[i].chat_id = chat_id
        /\ ingests[i].pc = "complete"
        /\ ingests[i].chunks # <<>>
        /\ CollectionName(chat_id) \in DOMAIN collections
        /\ \A k \in 1..Len(ingests[i].chunks) :
            \E n \in 1..Len(collections[CollectionName(chat_id)]) :
                collections[CollectionName(chat_id)][n] = ingests[i].chunks[k]

\* A step that changes the session of a scope changes it along pending,
\* processing, completed or failed.
StatusStep(chat_id) ==
    (/\ chat_id \in DOMAIN sessions
     /\ chat_id \in DOMAIN sessions'
     /\ sessions'[chat_id] # sessions[chat_id]) =>
        LET old == sessions[chat_id]
            new == sessions'[chat_id]
        IN  /\ StatusRank(old.status) < 2
            /\ StatusRank(new.status) >= StatusRank(old.status)
            /\ new.status # "pending"
            /\ new.status = "processing" =>
                /\ new.progress \in {10, 30, 50, 70}
                /\ new.progress >= old.progress
            /\ new.status = "completed" => new.progress = 100 /\ AllIndexed(chat_id)
            /\ new.status = "failed" => new.progress = 0 /\ new.error_message # None

\* C34: a session's status moves only along pending, processing, then
\* completed or failed, which are final; progress goes through 10, 30, 50,
\* 70 without decreasing; completed comes with progress 100 and only after
\* all chunks of the scope are in its partition; failed comes with 0.
C34_StatusLifecycle ==
    /\ [][\A s \in Scopes : StatusStep(s)]_vars
    /\ [](\A s \in DOMAIN sessions :
            /\ sessions[s].status = "pending" => sessions[s].progress = 0
            /\ sessions[s].status = "completed" => sessions[s].progress = 100
            /\ sessions[s].status = "failed" => sessions[s].progress = 0)

\* The same for the sessions of a service that has received no delete.
C34_LifecycleWithoutDelete ==
    /\ [][deletes' = <<>> => \A s \in Scopes : StatusStep(s)]_vars
    /\ [](\A s \in DOMAIN sessions :
            /\ sessions[s].status = "pending" => sessions[s].progress = 0
            /\ sessions[s].status = "completed" => sessions[s].progress = 100
            /\ sessions[s].status = "failed" => sessions[s].progress = 0)

\* The step of a chat request arriving.
ChatArrives == Len(chats') = Len(chats) + 1

\* C35: process_message runs the pipeline only for a scope whose session is
\* completed; for a missing session or any other status it answers with the
\* error text and no source, appends no user entry, changes neither session
\* nor index, and no pipeline run (no model call, no index query) follows.
C35_OnlyCompletedScopes ==
    /\ [][ChatArrives =>
            LET c == chats'[Len(chats')]
                missing == c.chat_id \notin DOMAIN sessions
                ready == ~missing /\ sessions[c.chat_id].status = "completed"
            IN  /\ c.pc = (IF ready THEN "agent" ELSE "refused")
                /\ ~ready =>
                    /\ c.response = (IF missing THEN SessionMissingMsg
                                     ELSE StillProcessingMsg)
                    /\ c.sources = <<>>
                    /\ messages' = messages
                    /\ sessions' = sessions
                    /\ chunkRows' = chunkRows
                    /\ collections' = collections
                    /\ cached' = cached
                    /\ checkpoint' = checkpoint
                /\ ready => messages' = Append(messages,
                                ChatMessageRow(c.chat_id, "user", c.message, <<>>))
       ]_vars
    /\ [][\A i \in 1..Len(chats) : chats[i].pc = "refused" => chats'[i] = chats[i]]_vars
    /\ [](\A i \in 1..Len(chats) :
            chats[i].pc = "refused" =>
                chats[i].state = EmptyDict /\ chats[i].retrieved = {})

\* A chat request was refused on a scope still being ingested and another
\* was taken on.
C35_Witness ==
    /\ \E i \in 1..Len(chats) :
        /\ chats[i].pc = "refused"
        /\ chats[i].response = StillProcessingMsg
    /\ \E i \in 1..Len(chats) : chats[i].pc \in {"agent", "reply", "done"}

Unfinished(chat_id) ==
    chat_id \in DOMAIN sessions /\ sessions[chat_id].status \in {"pending", "processing"}

EndsAfterDelete(i) ==
    /\ i \in 1..Len(ingests)
    /\ ingests[i].pc \notin {"done", "rejected"}
    /\ ingests'[i].pc = "done"
    /\ ingests[i].chat_id \notin DOMAIN sessions'
    /\ DeletesFor(ingests[i].chat_id) >= 1
    /\ \A j \in 1..Len(deletes) :
            deletes[j].chat_id = ingests[i].chat_id => deletes[j].pc = "done"
    /\ \A k \in 1..Len(ingests) \ {i} :
            ingests[k].chat_id = ingests[i].chat_id => ingests[k].pc \in {"done", "rejected"}

\* C37: when a delete of a scope and an ingestion run of the same scope that
\* was in flight during the delete have both finished, no stored chunk and no
\* index partition of the deleted scope exists.  Stated at the step in which
\* the run is the later of the two to finish.
C37_NoDataAfterDelete ==
    [][\A i \in 1..MaxIngests :
        EndsAfterDelete(i) =>
            /\ {r \in chunkRows' : r.chat_id = ingests[i].chat_id} = {}
            /\ CollectionName(ingests[i].chat_id) \notin DOMAIN collections'
    ]_vars

\* The partition half of C37 alone.
C37_NoPartitionAfterDelete ==
    [][\A i \in 1..MaxIngests :
        EndsAfterDelete(i) =>
            CollectionName(ingests[i].chat_id) \notin DOMAIN collections'
    ]_vars

\* C38: every section_part chunk holds at least one paragraph of the
\* section's content after its seed; none is the section title alone, also
\* when the first paragraph by itself is longer than max_chunk_size.
C38_PartsHoldParagraph ==
    applied =>
        \A i \in LongSections :
            LET section == document.sections[i]
                parts == PartsOf(section)
            IN  \A k \in 1..Len(parts) :
                    /\ Len(PartParagraphs(parts, section.title, k)) >= 1
                    /\ parts[k].content # Strip(section.title)

\* The later parts of C38 alone: every continued part holds a paragraph.
C38_ContinuedPartsHoldParagraph ==
    applied =>
        \A i \in LongSections :
            LET section == document.sections[i]
                parts == PartsOf(section)
            IN  \A k \in 2..Len(parts) :
                    Len(PartParagraphs(parts, section.title, k)) >= 1

\* The conversation_length the memory stage recorded for a chat run.
ConversationLength(c) == c.state.memory.conversation_length

\* C39: the memory record's conversation_length is the number of entries of
\* the scope's log once the user entry and the assistant entry of the
\* exchange are both persisted: 2k for the k-th message processed one at a
\* time.
C39_LengthCountsExchange ==
    \A s \in Scopes :
        LET runs == ProcessedOn(s)
        IN  \A k \in 1..Len(runs) :
                runs[k].pc = "done" =>
                    /\ ConversationLength(runs[k]) = 2 * k
                    /\ k = Len(runs) =>
                        ConversationLength(runs[k]) = Len(GetChatHistory(messages, s))

\* What the code records: the length of the history handed over, which
\* holds the message's own user entry, plus two.
C39_LengthIsHistoryPlusTwo ==
    \A s \in Scopes :
        LET runs == ProcessedOn(s)
        IN  \A k \in 1..Len(runs) :
                runs[k].pc \in {"reply", "done"} =>
                    /\ ConversationLength(runs[k]) = Len(runs[k].history) + 2
                    /\ ConversationLength(runs[k]) = 2 * k + 1

\* C40: the fence normalisation is idempotent: the formatting stage applied
\* to its own output returns that output unchanged.
C40_FormatIdempotent ==
    applied =>
        /\ CodeFormattingNode([response |-> shown]).response = shown
        /\ FormatResponse(FormatResponse(answer)) = FormatResponse(answer)

\* A text with two bare fences, or with a bare fence after a backtick, was
\* formatted and came back changed.
C40_Witness ==
    /\ applied
    /\ shown # answer
    /\ \/ Cardinality(BareFences(answer)) >= 2
       \/ \E i \in BareFences(answer) : i > 1 /\ answer[i - 1] = BT
    /\ Contains(shown, Fence \o TextTag \o <<NL>>)

====
